---- MODULE Spec2Model ----
(***************************************************************************)
(* A model of the per-call orchestrator of the Twilio/RIVA voice agent:    *)
(* VoiceAgent (src/main.py) with the objects it owns per connection        *)
(* (AudioProcessor, AudioOutputManager, AudioChunker, ResponseBuffer) and   *)
(* the ConversationManager shared by caller identity.                       *)
(*                                                                         *)
(* The program runs on one asyncio event loop, so a task runs without      *)
(* interruption from one suspension point (an await that really waits) to   *)
(* the next.  Each action below is one such run of one task.               *)
(*                                                                         *)
(* Two collaborators are services outside the repository, and what they    *)
(* answer is an input of the model: the recognition engine (the transcript  *)
(* and the is_final flag of a result; the placeholder in                     *)
(* RivaASRClient.streaming_recognize answers one of the values drawn here)  *)
(* and the generation service (the token stream, its end, its failure).     *)
(* The synthesizer is modelled as the source has it: silence of             *)
(* 8000 * 0.05 samples per character, yielded in chunks of 320 bytes.       *)
(***************************************************************************)
EXTENDS Integers, Sequences, FiniteSets, TLC

(***************************************************************************)
(* Bounds of the model.                                                    *)
(***************************************************************************)
MaxEvents == 3      \* messages a connection's transport delivers
MaxStarts == 2      \* start events among them
MaxTokens == 1      \* tokens the generation service streams per response
MaxShared == 2      \* messages per connection when two calls share a caller
MaxChunks == 3      \* chunks fed to a ResponseBuffer on its own
MaxWrites == 2      \* writes to an AudioChunker on its own
MaxWriteLen == 4    \* bytes of one such write
SmallChunk == 3     \* chunk_size of that AudioChunker (the constructor's parameter)
MaxHeard == 6       \* media events of a call that goes on long enough to fill the context
BatchFrames == 1    \* stands for the 50 buffered frames of streaming_recognize
MaxGens == 2        \* generators asked of one AudioOutputManager on its own
MaxFed == 120       \* chunks fed to streaming_recognize on its own
MaxThreads == 3        \* threads that call the connection pool
MaxConnections == 2    \* ConnectionPool.max_connections of the pool under trial
MaxCalls == 7          \* calls made to a CallRegistry on its own
HistorySize == 2       \* history_size of that CallRegistry (the constructor's parameter)

(***************************************************************************)
(* Program constants.                                                      *)
(***************************************************************************)
VoiceThreshold == 500     \* handle_media: audio_level > 500
ChunkSize      == 160     \* AudioChunker.chunk_size
TtsChunkBytes  == 320     \* RivaTTSClient.synthesize: chunk_size
SamplesPerChar == 400     \* 8000 samples/s * 0.05 s per character
FrameBytes     == 160     \* payload of one inbound media frame (20 ms, 8 kHz)
ContextTurns   == 10      \* get_response: conversations[caller_id][-10:]
BatchSize      == 50      \* streaming_recognize: len(audio_buffer) >= 50
LineRate       == 8000    \* resample_audio: from_rate, the rate of the telephone line
AsrRate        == 16000   \* resample_audio: to_rate, the rate the recognizer takes

Conn == {"c1", "c2"}
Callers == {"+15551234567"}
NoFrom == "Unknown"       \* handle_start: custom_params.get('from', 'Unknown')
NoCaller == "unknown"     \* process_with_ai: caller_numbers.get(c, "unknown")

(***************************************************************************)
(* Text.  A text is a sequence of characters.  The three fixed utterances  *)
(* of the program are 55, 52 and 62 characters long; the model keeps one   *)
(* character of the first and two of the others, so that the synthesized    *)
(* audio ends in half a frame exactly when the program's does (an odd       *)
(* number of characters).  The apologies hold no sentence ending followed   *)
(* by whitespace; the greeting is never segmented.                          *)
(***************************************************************************)
Whitespace == {" "}
SentenceEnd == {".", "!", "?"}
Greeting == <<"H">>       \* "Hello! I'm your AI assistant. How can I help you today?"
ApologyAI == <<"S", "y">>     \* "I apologize, but I'm having trouble processing that."
ApologyGen == <<"R", "w">>    \* "I apologize, but I'm having trouble processing that right now."
Tokens == {<<"a">>, <<" ">>, <<"a", ".", " ", "b">>}

\* str.strip() leaves nothing
IsBlank(text) == \A i \in 1..Len(text) : text[i] \in Whitespace

RECURSIVE Join(_)
\* ''.join(chunks)
Join(chunks) == IF chunks = <<>> THEN <<>> ELSE Head(chunks) \o Join(Tail(chunks))

(***************************************************************************)
(* Partial maps (dict): Put is d[k] = v, Del is del d[k], Get is           *)
(* d.get(k, dflt).                                                         *)
(***************************************************************************)
Put(d, k, v) == [x \in (DOMAIN d) \cup {k} |-> IF x = k THEN v ELSE d[x]]
Del(d, k) == [x \in (DOMAIN d) \ {k} |-> d[x]]
Get(d, k, dflt) == IF k \in DOMAIN d THEN d[k] ELSE dflt
EmptyMap == [x \in {} |-> 0]

(***************************************************************************)
(* Audio: codec, synthesizer, chunker.  Audio is silence, so a piece of    *)
(* audio is its length in bytes.                                           *)
(***************************************************************************)
\* a decoder that yields one byte per mu-law byte
ulaw2lin_bytewise(n) == n

\* audioop.ulaw2lin(audio, 2): one 16-bit sample per mu-law byte
ulaw2lin(n) == 2 * n
\* audioop.lin2ulaw(audio, 2)
lin2ulaw(n) == n \div 2

RECURSIVE Slices(_, _)
\* [silence[i:i+size] for i in range(0, total, size)], as lengths
Slices(total, size) ==
    IF total <= 0 THEN <<>>
    ELSE IF total <= size THEN <<total>>
    ELSE <<size>> \o Slices(total - size, size)

\* a synthesizer that yields chunks of 25 ms
synthesize_uneven(text) == Slices(Len(text) * SamplesPerChar * 2, (TtsChunkBytes * 5) \div 4)

\* RivaTTSClient.synthesize(text): the PCM chunks it yields, as lengths
synthesize(text) == Slices(Len(text) * SamplesPerChar * 2, TtsChunkBytes)

\* AudioChunker.add_audio: the complete chunks returned and the buffer kept
add_audio(buffer, n) ==
    [chunks |-> (buffer + n) \div ChunkSize, buffer |-> (buffer + n) % ChunkSize]

\* AudioChunker.get_remaining: the padded remainder (0: b'') and the buffer kept
get_remaining(buffer) ==
    [remaining |-> IF buffer > 0 THEN (IF buffer < ChunkSize THEN ChunkSize ELSE buffer) ELSE 0,
     buffer |-> 0]

(***************************************************************************)
(* State.                                                                  *)
(***************************************************************************)
VARIABLES
    hc,                 \* handle_connection per websocket: "new", "open", "closed"
    quota,              \* the events the transport may still deliver, per connection
    connections,        \* VoiceAgent.connections
    stream_sids,        \* VoiceAgent.stream_sids
    call_sids,          \* VoiceAgent.call_sids
    caller_numbers,     \* VoiceAgent.caller_numbers
    audio_processors,   \* keys of VoiceAgent.audio_processors
    output_managers,    \* keys of VoiceAgent.output_managers
    audio_chunkers,     \* keys of VoiceAgent.audio_chunkers
    response_buffers,   \* keys of VoiceAgent.response_buffers
    is_speaking,        \* VoiceAgent.is_speaking (defaultdict(bool))
    last_transcript,    \* VoiceAgent.last_transcript (defaultdict(str))
    audio_queue,        \* AudioProcessor.audio_queue of the connection's processor
    is_processing,      \* AudioProcessor.is_processing
    is_playing,         \* AudioOutputManager.is_playing
    chunk_buffer,       \* AudioChunker.buffer (its length)
    resp_buffer,        \* ResponseBuffer.buffer (the list of chunks)
    conversations,      \* ConversationManager.conversations (defaultdict(list))
    greet,              \* the send_greeting task of each start event
    asr,                \* the start_asr_processing task of each start event
    agen,               \* synthesize_and_queue generators left open by a break, not yet closed
    emit,               \* the messages the step just taken sent to the transport
    stopped,            \* history of the connection's latest stop event: at, the number of
                        \* messages handled when it was (0: none yet), and during, what
                        \* was going on then
    trial               \* the object under trial in the specifications of single classes

maps == <<connections, stream_sids, call_sids, caller_numbers, audio_processors,
          output_managers, audio_chunkers, response_buffers, is_speaking, last_transcript>>
objects == <<audio_queue, is_processing, is_playing, chunk_buffer, resp_buffer>>
agent == <<hc, quota, maps, objects, conversations, greet, asr, agen, emit, stopped>>
vars == <<hc, quota, maps, objects, conversations, greet, asr, agen, emit, stopped, trial>>

Starts == 1..MaxStarts
Levels == {VoiceThreshold, VoiceThreshold + 1}    \* audioop.rms of a payload
Sid(c) == "MZ-" \o c                               \* start.streamSid of the connection's stream
Cid(c) == "CA-" \o c                               \* start.callSid

\* a task that does not exist yet
NoTask == [pc |-> "none", left |-> <<>>, pending |-> 0, sid |-> "-", hit |-> FALSE,
           todo |-> <<>>, phase |-> "-", abuf |-> 0, caller |-> "-", full |-> <<>>,
           ntok |-> 0, cut |-> FALSE, again |-> FALSE, request |-> <<>>,
           text |-> <<>>]

\* what the transport may still deliver (messages in all, and of each kind) and the number
\* of messages handled so far
Quota(events, start, media, stop, other) ==
    [events |-> events, start |-> start, media |-> media, stop |-> stop, other |-> other,
     seen |-> 0]
NoQuota == Quota(0, 0, 0, 0, 0)
FullQuota == Quota(MaxEvents, MaxStarts, MaxEvents, MaxEvents, MaxEvents)

\* the state after VoiceAgent.__init__, with the deliveries q the environment will make
Start(q) ==
    /\ hc = [c \in Conn |-> "new"]
    /\ quota = q
    /\ connections = EmptyMap
    /\ stream_sids = EmptyMap
    /\ call_sids = EmptyMap
    /\ caller_numbers = EmptyMap
    /\ audio_processors = {}
    /\ output_managers = {}
    /\ audio_chunkers = {}
    /\ response_buffers = {}
    /\ is_speaking = EmptyMap
    /\ last_transcript = EmptyMap
    /\ audio_queue = [c \in Conn |-> <<>>]
    /\ is_processing = [c \in Conn |-> FALSE]
    /\ is_playing = [c \in Conn |-> FALSE]
    /\ chunk_buffer = [c \in Conn |-> 0]
    /\ resp_buffer = [c \in Conn |-> <<>>]
    /\ conversations = EmptyMap
    /\ greet = [c \in Conn |-> [k \in Starts |-> NoTask]]
    /\ asr = [c \in Conn |-> [k \in Starts |-> NoTask]]
    /\ agen = [c \in Conn |-> 0]
    /\ emit = <<>>
    /\ stopped = [c \in Conn |-> [at |-> 0, during |-> {}]]

\* no object is under trial
NoTrial == <<>>

\* one call
Init == trial = NoTrial /\ Start([c \in Conn |-> IF c = "c1" THEN FullQuota ELSE NoQuota])

\* two calls of one caller: the first is started and speaks, the second is started and stopped
InitShared == trial = NoTrial /\ Start([c \in Conn |-> IF c = "c1" THEN Quota(MaxShared, 1, MaxShared - 1, 0, 0)
                                    ELSE Quota(MaxShared, 1, 0, MaxShared - 1, 0)])

(***************************************************************************)
(* synthesize_and_send, from one suspension point to the next.  A run      *)
(* yields a record: state is "sleep" (a frame was sent, the task sleeps     *)
(* 20 ms), "returned" or "raised" (KeyError); sp, pl, bf are                *)
(* is_speaking[c], is_playing and the chunker's buffer after the run;       *)
(* touch says that is_speaking[c] was read or written (the defaultdict then *)
(* holds an entry); out lists the media messages sent, each with the local  *)
(* stream_sid, the text of its fragment, whether the fragment had been       *)
(* interrupted before and is_speaking[c] as it was at the send; open         *)
(* counts the generators of synthesize_and_queue left open by a break;      *)
(* spoke counts the calls that went on to set is_speaking[c] (line 220).    *)
(***************************************************************************)
\* lines 249-265: the remainder is flushed, finally is_speaking[c] = False
Flush(pl, bf, open, m) ==
    LET r == get_remaining(bf) IN
    [state |-> "returned", sp |-> FALSE, pl |-> pl, bf |-> r.buffer, left |-> <<>>,
     pending |-> 0, touch |-> TRUE, out |-> IF r.remaining > 0 THEN <<m>> ELSE <<>>,
     open |-> open, spoke |-> 0]

RECURSIVE NextChunk(_, _, _, _, _)
\* lines 223-247 with AudioOutputManager.synthesize_and_queue (lines 94-107 of
\* riva_tts_client.py): the next chunk is asked of the generator, which ends when the
\* synthesizer has no more or is_playing is false; the loop breaks when is_speaking[c] is
\* false; the chunk goes through the chunker and its first frame is sent
NextChunk(sp, pl, bf, left, m) ==
    IF left = <<>> \/ ~pl THEN Flush(FALSE, bf, 0, [m EXCEPT !.speaking = sp])
    ELSE IF ~sp THEN Flush(pl, bf, 1, [m EXCEPT !.speaking = sp])
    ELSE LET r == add_audio(bf, lin2ulaw(Head(left))) IN
         IF r.chunks = 0 THEN NextChunk(sp, pl, r.buffer, Tail(left), m)
         ELSE [state |-> "sleep", sp |-> sp, pl |-> pl, bf |-> r.buffer, left |-> Tail(left),
               pending |-> r.chunks - 1, touch |-> TRUE,
               out |-> <<[m EXCEPT !.speaking = sp]>>, open |-> 0, spoke |-> 0]

\* nothing done yet in this run
Untouched(c) ==
    [state |-> "returned", sp |-> FALSE, pl |-> is_playing[c], bf |-> chunk_buffer[c],
     left |-> <<>>, pending |-> 0, touch |-> FALSE, out |-> <<>>, open |-> 0, spoke |-> 0]

\* what a run r0 and the run r that follows it in the same step did together
Then(r0, r) ==
    [r EXCEPT !.touch = r0.touch \/ r.touch, !.out = r0.out \o r.out,
              !.open = r0.open + r.open, !.spoke = r0.spoke + r.spoke]

RECURSIVE Say(_, _, _)
\* synthesize_and_send(c, text) called for the texts of todo one after the other, as far as
\* the first suspension: a call returns at once when c is not in connections (line 211),
\* raises KeyError when an object of c is gone (lines 214-217), and else sets
\* is_speaking[c] and runs the loop.  rest: the texts not yet called for.
Say(c, todo, r0) ==
    IF todo = <<>> THEN [res |-> [r0 EXCEPT !.state = "returned"], rest |-> <<>>]
    ELSE IF c \notin DOMAIN connections THEN Say(c, Tail(todo), r0)
    ELSE IF c \notin DOMAIN stream_sids \/ c \notin output_managers \/ c \notin audio_chunkers
         THEN [res |-> [r0 EXCEPT !.state = "raised"], rest |-> Tail(todo)]
    ELSE LET n == NextChunk(TRUE, TRUE, r0.bf, synthesize(Head(todo)),
                            [sid |-> stream_sids[c], late |-> FALSE, text |-> Head(todo),
                             speaking |-> TRUE])
             r == Then(r0, [n EXCEPT !.spoke = 1])
         IN IF r.state = "sleep"
            THEN [res |-> r, rest |-> Tail(todo)]
            ELSE Say(c, Tail(todo), r)

\* synthesize_and_send after asyncio.sleep(0.02): the frames of the chunk list not yet sent
\* go out unconditionally (lines 231-247), then the next chunk is asked for
SynthResume(c, t) ==
    LET m == [sid |-> t.sid, late |-> t.hit, text |-> t.text,
              speaking |-> Get(is_speaking, c, FALSE)] IN
    IF t.pending > 0
    THEN [Untouched(c) EXCEPT !.state = "sleep", !.left = t.left, !.pending = t.pending - 1,
                              !.out = <<m>>]
    ELSE NextChunk(Get(is_speaking, c, FALSE), is_playing[c], chunk_buffer[c], t.left, m)

\* a task resumes after the sleep and goes on to the texts still to be said
Resume(c, t) ==
    LET r == SynthResume(c, t) IN
    IF r.state = "sleep" THEN [res |-> r, rest |-> t.todo] ELSE Say(c, t.todo, r)

\* the effect of a run r of connection c on the flags, the chunker and the transport
Speech(c, r) ==
    /\ is_speaking' = IF r.touch THEN Put(is_speaking, c, r.sp) ELSE is_speaking
    /\ is_playing' = [is_playing EXCEPT ![c] = r.pl]
    /\ chunk_buffer' = [chunk_buffer EXCEPT ![c] = r.bf]
    /\ agen' = [agen EXCEPT ![c] = @ + r.open]
    /\ emit' = [i \in 1..Len(r.out) |->
                  [conn |-> c, event |-> "media", streamSid |-> r.out[i].sid,
                   late |-> r.out[i].late, text |-> r.out[i].text,
                   speaking |-> r.out[i].speaking]]

NoSpeech ==
    /\ UNCHANGED <<is_speaking, is_playing, chunk_buffer, agen>>
    /\ emit' = <<>>

\* the locals of a task inside synthesize_and_send after a run x that ended in a sleep;
\* the fragment is the one the task was in before the run when x.rest is all of t.todo
InFlight(c, t, x) ==
    LET same == t.pc = "sleep" /\ Len(x.rest) = Len(t.todo) IN
    [t EXCEPT !.pc = "sleep", !.left = x.res.left, !.pending = x.res.pending,
              !.sid = IF same THEN t.sid ELSE stream_sids[c],
              !.hit = IF same THEN t.hit ELSE FALSE,
              !.text = x.res.out[Len(x.res.out)].text,
              !.todo = x.rest]

\* the asyncio finalizer closes a generator left open: GeneratorExit at the yield of
\* synthesize_and_queue, whose finally sets is_playing = False
AgenClose(c) ==
    /\ agen[c] > 0
    /\ agen' = [agen EXCEPT ![c] = @ - 1]
    /\ is_playing' = [is_playing EXCEPT ![c] = FALSE]
    /\ emit' = <<>>
    /\ UNCHANGED <<hc, quota, connections, stream_sids, call_sids, caller_numbers,
                   audio_processors, output_managers, audio_chunkers, response_buffers,
                   is_speaking, last_transcript, audio_queue, is_processing, chunk_buffer,
                   resp_buffer, conversations, greet, asr, stopped, trial>>

(***************************************************************************)
(* cleanup_connection, as a function of the state it reads and writes.     *)
(***************************************************************************)
AgentState ==
    [connections |-> connections, stream_sids |-> stream_sids, call_sids |-> call_sids,
     caller_numbers |-> caller_numbers, audio_processors |-> audio_processors,
     output_managers |-> output_managers, audio_chunkers |-> audio_chunkers,
     response_buffers |-> response_buffers, is_speaking |-> is_speaking,
     last_transcript |-> last_transcript, is_processing |-> is_processing,
     conversations |-> conversations, raised |-> FALSE]

\* d.clear()
DiscardAll(d, k) == EmptyMap

\* if k in d: del d[k]
Discard(d, k) == IF k \in DOMAIN d THEN Del(d, k) ELSE d

\* ConversationManager.clear_conversation
clear_conversation(conv, caller) == Discard(conv, caller)

\* lines 279-281 without the test of line 279: a KeyError when the processor is gone
StopAudioUnguarded(S, c) ==
    IF c \in S.audio_processors
    THEN [S EXCEPT !.is_processing = [@ EXCEPT ![c] = FALSE],
                   !.audio_processors = @ \ {c}]
    ELSE [S EXCEPT !.raised = TRUE]

\* lines 279-281 without stop_processing: the processor is only forgotten
StopAudioForgets(S, c) == [S EXCEPT !.audio_processors = @ \ {c}]

\* lines 279-281: stop_processing and del, when the processor is registered
StopAudio(S, c) ==
    IF c \in S.audio_processors
    THEN [S EXCEPT !.is_processing = [@ EXCEPT ![c] = FALSE],
                   !.audio_processors = @ \ {c}]
    ELSE S

\* lines 283-286: caller_numbers.get(c), and the caller's history cleared when it is truthy
ClearHistory(S, c) ==
    IF c \in DOMAIN S.caller_numbers /\ S.caller_numbers[c] # ""
    THEN [S EXCEPT !.conversations = clear_conversation(@, S.caller_numbers[c])]
    ELSE S

\* lines 288-308 without lines 305-306: is_speaking keeps its entry
DropEntriesButSpeaking(S, c) ==
    [S EXCEPT !.connections = Discard(@, c), !.stream_sids = Discard(@, c),
              !.call_sids = Discard(@, c), !.caller_numbers = Discard(@, c),
              !.output_managers = @ \ {c}, !.audio_chunkers = @ \ {c},
              !.response_buffers = @ \ {c}, !.last_transcript = Discard(@, c)]

\* lines 288-308
DropEntries(S, c) ==
    [S EXCEPT !.connections = Discard(@, c), !.stream_sids = Discard(@, c),
              !.call_sids = Discard(@, c), !.caller_numbers = Discard(@, c),
              !.output_managers = @ \ {c}, !.audio_chunkers = @ \ {c},
              !.response_buffers = @ \ {c}, !.is_speaking = Discard(@, c),
              !.last_transcript = Discard(@, c)]

cleanup_connection(S, c) == DropEntries(ClearHistory(StopAudio(S, c), c), c)

\* the state becomes S
Become(S) ==
    /\ connections' = S.connections
    /\ stream_sids' = S.stream_sids
    /\ call_sids' = S.call_sids
    /\ caller_numbers' = S.caller_numbers
    /\ audio_processors' = S.audio_processors
    /\ output_managers' = S.output_managers
    /\ audio_chunkers' = S.audio_chunkers
    /\ response_buffers' = S.response_buffers
    /\ is_speaking' = S.is_speaking
    /\ last_transcript' = S.last_transcript
    /\ is_processing' = S.is_processing
    /\ conversations' = S.conversations


(***************************************************************************)
(* The connection handler: handle_connection and process_message.  No       *)
(* handler waits (the queue of add_audio is unbounded, cleanup_connection    *)
(* awaits nothing), so an event is handled in one step.                     *)
(***************************************************************************)
Count(c, kind) ==
    /\ quota[c].events > 0
    /\ quota[c][kind] > 0
    /\ quota' = [quota EXCEPT ![c].events = @ - 1, ![c][kind] = @ - 1, ![c].seen = @ + 1]

\* handle_connection up to the message loop (lines 62-69), for a transport that will
\* deliver something
Connect(c) ==
    /\ hc[c] = "new"
    /\ quota[c].events > 0
    /\ hc' = [hc EXCEPT ![c] = "open"]
    /\ audio_processors' = audio_processors \cup {c}
    /\ output_managers' = output_managers \cup {c}
    /\ audio_chunkers' = audio_chunkers \cup {c}
    /\ response_buffers' = response_buffers \cup {c}
    /\ emit' = <<>>
    /\ UNCHANGED <<quota, connections, stream_sids, call_sids, caller_numbers, is_speaking,
                   last_transcript, objects, conversations, greet, asr, agen, stopped, trial>>

\* the index of the tasks the next start event creates
NextStart(c) == CHOOSE k \in Starts : asr[c][k].pc = "none" /\ \A j \in 1..(k - 1) : asr[c][j].pc # "none"

\* handle_start (lines 97-125); from is customParameters.from, or NoFrom when it is absent
HandleStart(c, from) ==
    /\ hc[c] = "open"
    /\ \E k \in Starts : asr[c][k].pc = "none"
    /\ Count(c, "start")
    /\ stream_sids' = Put(stream_sids, c, Sid(c))
    /\ call_sids' = Put(call_sids, c, Cid(c))
    /\ caller_numbers' = Put(caller_numbers, c, from)
    /\ connections' = Put(connections, c,
                          [stream_sid |-> Sid(c), call_sid |-> Cid(c), caller_number |-> from])
    /\ asr' = [asr EXCEPT ![c][NextStart(c)] = [NoTask EXCEPT !.pc = "new"]]
    /\ greet' = [greet EXCEPT ![c][NextStart(c)] = [NoTask EXCEPT !.pc = "delay"]]
    /\ emit' = <<>>
    /\ UNCHANGED <<hc, audio_processors, output_managers, audio_chunkers, response_buffers,
                   is_speaking, last_transcript, objects, conversations, agen, stopped, trial>>

\* AudioOutputManager.interrupt (its audio_queue is never filled)
interrupt(playing, c) == [playing EXCEPT ![c] = FALSE]

\* a queue of one place
queue_full_at_one(queue) == Len(queue) >= 1

\* asyncio.Queue() has no maxsize: it is never full and put never waits
queue_full(queue) == FALSE

\* a queue that hands out the newest chunk first
put_first(queue, chunk) == <<chunk>> \o queue

\* AudioProcessor.add_audio: audio_queue.put(chunk)
put(queue, chunk) == Append(queue, chunk)

\* the fragments in flight on c, which an interruption hits
Hit(tasks, c) ==
    [tasks EXCEPT ![c] = [k \in Starts |->
        IF tasks[c][k].pc = "sleep" THEN [tasks[c][k] EXCEPT !.hit = TRUE, !.cut = TRUE]
        ELSE tasks[c][k]]]

\* a voice test that the threshold level passes
voice_at_threshold(rms) == rms >= VoiceThreshold

\* the voice test of handle_media (line 144)
voice(rms) == rms > VoiceThreshold

\* handle_media (lines 127-150) for a payload of FrameBytes bytes whose decoded audio has
\* the RMS level rms; the handler returns when put has taken the chunk
HandleMedia(c, rms) ==
    /\ hc[c] = "open"
    /\ Count(c, "media")
    /\ c \in audio_processors => ~queue_full(audio_queue[c])
    /\ emit' = <<>>
    /\ IF c \in audio_processors
       THEN LET speaking == Get(is_speaking, c, FALSE)
                barge == speaking /\ voice(rms)
            IN /\ is_speaking' = Put(is_speaking, c, speaking /\ ~barge)
               /\ is_playing' = IF barge THEN interrupt(is_playing, c) ELSE is_playing
               /\ greet' = IF barge THEN Hit(greet, c) ELSE greet
               /\ asr' = IF barge THEN Hit(asr, c) ELSE asr
               /\ audio_queue' = [audio_queue EXCEPT ![c] =
                      put(@, [seq |-> quota[c].seen + 1, size |-> ulaw2lin(FrameBytes)])]
       ELSE UNCHANGED <<is_speaking, is_playing, greet, asr, audio_queue>>
    /\ UNCHANGED <<hc, connections, stream_sids, call_sids, caller_numbers, audio_processors,
                   output_managers, audio_chunkers, response_buffers, last_transcript,
                   is_processing, chunk_buffer, resp_buffer, conversations, agen, stopped, trial>>

\* process_message without its except clauses: the JSONDecodeError leaves the message
\* loop and the finally of handle_connection cleans the connection up
HandleOtherUncaught(c, kind) ==
    /\ hc[c] = "open"
    /\ Count(c, "other")
    /\ emit' = <<>>
    /\ IF kind = "invalid"
       THEN /\ hc' = [hc EXCEPT ![c] = "closed"]
            /\ Become(cleanup_connection(AgentState, c))
            /\ UNCHANGED <<audio_queue, is_playing, chunk_buffer, resp_buffer>>
       ELSE UNCHANGED <<hc, maps, objects, conversations>>
    /\ UNCHANGED <<greet, asr, agen, stopped, trial>>

\* process_message for a mark event, a media event without payload or a message that is
\* not JSON: no branch of lines 85-90 does anything, or json.loads raises and is logged
HandleOther(c, kind) ==
    /\ hc[c] = "open"
    /\ Count(c, "other")
    /\ emit' = <<>>
    /\ UNCHANGED <<hc, maps, objects, conversations, greet, asr, agen, stopped, trial>>

\* what the tasks of c are in the middle of: the greeting or a response being played,
\* a response being generated
Doing(c) ==
    {"greeting" : k \in {j \in Starts : greet[c][j].pc = "sleep"}}
    \cup {"response" : k \in {j \in Starts : asr[c][j].pc = "sleep"}}
    \cup {"generating" : k \in {j \in Starts : asr[c][j].pc \in {"ai_call", "ai_stream"}}}

\* handle_stop (lines 152-155)
HandleStop(c) ==
    /\ hc[c] = "open"
    /\ Count(c, "stop")
    /\ Become(cleanup_connection(AgentState, c))
    /\ stopped' = [stopped EXCEPT ![c] = [at |-> quota'[c].seen, during |-> Doing(c)]]
    /\ emit' = <<>>
    /\ UNCHANGED <<hc, audio_queue, is_playing, chunk_buffer, resp_buffer, greet, asr, agen,
                   trial>>

\* a close that only marks the transport closed
CloseNoCleanup(c) ==
    /\ hc[c] = "open"
    /\ hc' = [hc EXCEPT ![c] = "closed"]
    /\ emit' = <<>>
    /\ UNCHANGED <<quota, maps, objects, conversations, greet, asr, agen, stopped, trial>>

\* the transport closes or its message stream ends: the finally of handle_connection
\* (lines 74-77)
Close(c) ==
    /\ hc[c] = "open"
    /\ hc' = [hc EXCEPT ![c] = "closed"]
    /\ Become(cleanup_connection(AgentState, c))
    /\ emit' = <<>>
    /\ UNCHANGED <<quota, audio_queue, is_playing, chunk_buffer, resp_buffer, greet, asr,
                   agen, stopped, trial>>

(***************************************************************************)
(* The greeting task (send_greeting, lines 267-274).                       *)
(***************************************************************************)
\* a task leaves synthesize_and_send for the position pc
Left(t, pc) ==
    [t EXCEPT !.pc = pc, !.left = <<>>, !.pending = 0, !.sid = "-", !.hit = FALSE,
              !.todo = <<>>, !.text = <<>>]

\* after asyncio.sleep(0.5): synthesize_and_send(c, greeting); a KeyError ends the task
GreetSpeak(c, k) ==
    /\ greet[c][k].pc = "delay"
    /\ LET x == Say(c, <<Greeting>>, Untouched(c)) IN
       /\ Speech(c, x.res)
       /\ greet' = [greet EXCEPT ![c][k] =
             CASE x.res.state = "sleep" -> InFlight(c, @, x)
               [] x.res.state = "raised" -> Left(@, "crashed")
               [] OTHER -> Left(@, "done")]
    /\ UNCHANGED <<hc, quota, connections, stream_sids, call_sids, caller_numbers,
                   audio_processors, output_managers, audio_chunkers, response_buffers,
                   last_transcript, audio_queue, is_processing, resp_buffer, conversations,
                   asr, stopped, trial>>

\* the greeting's synthesize_and_send after asyncio.sleep(0.02)
GreetResume(c, k) ==
    /\ greet[c][k].pc = "sleep"
    /\ LET x == Resume(c, greet[c][k]) IN
       /\ Speech(c, x.res)
       /\ greet' = [greet EXCEPT ![c][k] =
             IF x.res.state = "sleep" THEN InFlight(c, @, x) ELSE Left(@, "done")]
    /\ UNCHANGED <<hc, quota, connections, stream_sids, call_sids, caller_numbers,
                   audio_processors, output_managers, audio_chunkers, response_buffers,
                   last_transcript, audio_queue, is_processing, resp_buffer, conversations,
                   asr, stopped, trial>>

(***************************************************************************)
(* The recognition task: start_asr_processing, AudioProcessor               *)
(* .start_processing, RivaASRClient.streaming_recognize over                 *)
(* AudioProcessor.audio_generator, and in it handle_transcript,              *)
(* process_with_ai and ConversationManager.get_response.                     *)
(***************************************************************************)
\* what the recognition engine may answer for a batch; the first is the placeholder's
Results == {[transcript |-> <<"p">>, is_final |-> FALSE],
            [transcript |-> <<"h">>, is_final |-> TRUE],
            [transcript |-> <<" ">>, is_final |-> TRUE]}

RECURSIVE SkipSpace(_)
SkipSpace(text) ==
    IF text # <<>> /\ Head(text) \in Whitespace THEN SkipSpace(Tail(text)) ELSE text

RECURSIVE Split(_, _)
\* re.compile(r'[.!?]\s+').split(text), with acc the part being read
Split(text, acc) ==
    IF text = <<>> THEN <<acc>>
    ELSE IF Head(text) \in SentenceEnd /\ Len(text) >= 2 /\ text[2] \in Whitespace
         THEN <<acc>> \o Split(SkipSpace(Tail(text)), <<>>)
    ELSE Split(Tail(text), Append(acc, Head(text)))

\* get_complete_sentences as it would be if line 153 appended the matched separator: the
\* sentences are returned and the last part is kept
SentencesReturned(buffer) ==
    LET parts == Split(Join(buffer), <<>>) IN
    IF Len(parts) > 1
    THEN [raised |-> FALSE,
          sentences |-> [i \in 1..(Len(parts) - 1) |-> parts[i] \o <<".", " ">>],
          buffer |-> <<parts[Len(parts)]>>]
    ELSE [raised |-> FALSE, sentences |-> <<>>, buffer |-> buffer]

\* ResponseBuffer.get_complete_sentences: with more than one part, line 153 indexes the text
\* with the matched string and raises TypeError before anything is returned or kept
get_complete_sentences(buffer) ==
    LET parts == Split(Join(buffer), <<>>) IN
    IF Len(parts) > 1
    THEN [raised |-> TRUE, sentences |-> <<>>, buffer |-> buffer]
    ELSE [raised |-> FALSE, sentences |-> <<>>, buffer |-> buffer]

\* the task is back in audio_generator: while self.is_processing (line 131); when it is
\* false, streaming_recognize ends and the finally of start_processing leaves it false
Back(c, t) ==
    [NoTask EXCEPT !.pc = IF is_processing[c] THEN "wait" ELSE "done", !.again = t.again]

\* start_processing caught an exception (lines 148-151)
Ended(t) == [NoTask EXCEPT !.pc = "done", !.again = t.again]

\* the task after a run x of synthesize_and_send calls made by process_with_ai, in the
\* sentence loop (phase "stream") or for the remainder or the apology (phase "last")
AsrNext(c, t, x, phase) ==
    LET u == [t EXCEPT !.again = @ \/ (t.cut /\ x.res.spoke > 0)] IN
    CASE x.res.state = "sleep" -> [InFlight(c, u, x) EXCEPT !.phase = phase]
      [] x.res.state = "raised" -> Ended(u)
      [] phase = "stream" -> [Left(u, "ai_stream") EXCEPT !.phase = "-"]
      [] OTHER -> Back(c, u)

\* process_with_ai calls synthesize_and_send for texts; a KeyError of the call is raised
\* again by the apology of line 207 and ends start_processing
AsrSay(c, k, t, texts, phase) ==
    LET x == Say(c, texts, Untouched(c)) IN
    /\ Speech(c, x.res)
    /\ asr' = [asr EXCEPT ![c][k] = AsrNext(c, t, x, phase)]
    /\ is_processing' = IF x.res.state = "raised"
                        THEN [is_processing EXCEPT ![c] = FALSE] ELSE is_processing

\* start_asr_processing (lines 157-177) up to the first wait of audio_generator
AsrBegin(c, k) ==
    /\ asr[c][k].pc = "new"
    /\ IF c \in audio_processors
       THEN /\ is_processing' = [is_processing EXCEPT ![c] = TRUE]
            /\ asr' = [asr EXCEPT ![c][k].pc = "wait"]
       ELSE /\ asr' = [asr EXCEPT ![c][k].pc = "done"]
            /\ UNCHANGED is_processing
    /\ emit' = <<>>
    /\ UNCHANGED <<hc, quota, maps, audio_queue, is_playing, chunk_buffer, resp_buffer,
                   conversations, greet, agen, stopped, trial>>

\* ConversationManager.get_response up to the call of the service (lines 42-53): the user
\* turn is appended to the caller's history
user_turn(conv, caller, text) ==
    Put(conv, caller, Append(Get(conv, caller, <<>>), [role |-> "user", content |-> text]))

\* the whole history
whole_history(history) == history

\* history[-10:], the turns get_response passes to the service after the system prompt
\* (lines 47-49)
context(history) ==
    SubSeq(history, IF Len(history) > ContextTurns THEN Len(history) - ContextTurns + 1 ELSE 1,
           Len(history))

\* ConversationManager.get_response at the end of the stream (line 69)
assistant_turn(conv, caller, text) ==
    Put(conv, caller, Append(Get(conv, caller, <<>>), [role |-> "assistant", content |-> text]))

\* handle_transcript that goes on for every transcript that is not blank
wanted_when_partial(res) == ~IsBlank(res.transcript)

\* handle_transcript goes on to process_with_ai (line 167)
wanted(res) == res.is_final /\ ~IsBlank(res.transcript)

\* audio_generator gets a chunk; streaming_recognize buffers it and, with BatchFrames
\* buffered, yields the engine's result res to handle_transcript, which starts
\* process_with_ai for a final transcript that is not blank
AsrGet(c, k, res) ==
    /\ asr[c][k].pc = "wait"
    /\ audio_queue[c] # <<>>
    /\ audio_queue' = [audio_queue EXCEPT ![c] = Tail(@)]
    /\ emit' = <<>>
    /\ LET t == asr[c][k]
           caller == Get(caller_numbers, c, NoCaller)
       IN
       IF t.abuf + 1 < BatchFrames
       THEN /\ asr' = [asr EXCEPT ![c][k] = [Back(c, t) EXCEPT !.abuf = t.abuf + 1]]
            /\ UNCHANGED <<last_transcript, resp_buffer, conversations, is_processing>>
       ELSE IF ~wanted(res)
       THEN /\ asr' = [asr EXCEPT ![c][k] = Back(c, t)]
            /\ UNCHANGED <<last_transcript, resp_buffer, conversations, is_processing>>
       ELSE /\ last_transcript' = Put(last_transcript, c, res.transcript)
            /\ IF c \notin DOMAIN connections
               THEN /\ asr' = [asr EXCEPT ![c][k] = Back(c, t)]
                    /\ UNCHANGED <<resp_buffer, conversations, is_processing>>
               ELSE IF c \notin response_buffers
               THEN /\ asr' = [asr EXCEPT ![c][k] = Ended(t)]
                    /\ is_processing' = [is_processing EXCEPT ![c] = FALSE]
                    /\ UNCHANGED <<resp_buffer, conversations>>
               ELSE /\ resp_buffer' = [resp_buffer EXCEPT ![c] = <<>>]
                    /\ conversations' = user_turn(conversations, caller, res.transcript)
                    /\ asr' = [asr EXCEPT ![c][k] =
                                  [NoTask EXCEPT !.pc = "ai_call", !.caller = caller,
                                                 !.again = t.again,
                                                 !.request = context(conversations'[caller])]]
                    /\ UNCHANGED is_processing
    /\ UNCHANGED <<hc, quota, connections, stream_sids, call_sids, caller_numbers,
                   audio_processors, output_managers, audio_chunkers, response_buffers,
                   is_speaking, is_playing, chunk_buffer, greet, agen, stopped, trial>>

\* wait_for(audio_queue.get(), 0.1) times out and is_processing is false: the generator ends
AsrIdle(c, k) ==
    /\ asr[c][k].pc = "wait"
    /\ audio_queue[c] = <<>>
    /\ ~is_processing[c]
    /\ asr' = [asr EXCEPT ![c][k] = Ended(@)]
    /\ emit' = <<>>
    /\ UNCHANGED <<hc, quota, maps, objects, conversations, greet, agen, stopped, trial>>

\* process_with_ai receives a chunk of the stream (lines 192-198)
Chunk(c, k, t, chunk, over) ==
    LET buffer == Append(resp_buffer[c], chunk)
        g == get_complete_sentences(buffer)
    IN
    IF g.raised
    THEN /\ resp_buffer' = [resp_buffer EXCEPT ![c] = buffer]
         /\ AsrSay(c, k, t, <<ApologyAI>>, "last")
    ELSE IF over
    THEN /\ resp_buffer' = [resp_buffer EXCEPT ![c] = g.buffer]
         /\ AsrSay(c, k, t, IF IsBlank(Join(g.buffer)) THEN <<>> ELSE <<Join(g.buffer)>>, "last")
    ELSE /\ resp_buffer' = [resp_buffer EXCEPT ![c] = g.buffer]
         /\ AsrSay(c, k, t, g.sentences, "stream")

AiFrame == <<hc, quota, connections, stream_sids, call_sids, caller_numbers,
             audio_processors, output_managers, audio_chunkers, response_buffers,
             last_transcript, audio_queue, greet, stopped, trial>>

\* chat.completions.create answers (line 53), or raises: get_response then yields its
\* apology as the only chunk (lines 83-85)
AiCreate(c, k, ok) ==
    /\ asr[c][k].pc = "ai_call"
    /\ IF ok
       THEN /\ asr' = [asr EXCEPT ![c][k].pc = "ai_stream"]
            /\ NoSpeech
            /\ UNCHANGED <<resp_buffer, is_processing>>
       ELSE Chunk(c, k, asr[c][k], ApologyGen, TRUE)
    /\ UNCHANGED <<AiFrame, conversations>>

\* the stream yields a token (lines 62-66)
AiToken(c, k, tok) ==
    /\ asr[c][k].pc = "ai_stream"
    /\ asr[c][k].ntok < MaxTokens
    /\ Chunk(c, k, [asr[c][k] EXCEPT !.full = @ \o tok, !.ntok = @ + 1], tok, FALSE)
    /\ UNCHANGED <<AiFrame, conversations>>

\* the stream ends: the assistant turn is appended (line 69) and process_with_ai
\* synthesizes the remainder (lines 200-203)
AiEnd(c, k) ==
    /\ asr[c][k].pc = "ai_stream"
    /\ conversations' = assistant_turn(conversations, asr[c][k].caller, asr[c][k].full)
    /\ LET text == Join(resp_buffer[c]) IN
       AsrSay(c, k, asr[c][k], IF IsBlank(text) THEN <<>> ELSE <<text>>, "last")
    /\ UNCHANGED <<AiFrame, resp_buffer>>

\* the stream raises: get_response yields its apology as one more chunk and ends
AiFail(c, k) ==
    /\ asr[c][k].pc = "ai_stream"
    /\ Chunk(c, k, asr[c][k], ApologyGen, TRUE)
    /\ UNCHANGED <<AiFrame, conversations>>

\* synthesize_and_send of process_with_ai after asyncio.sleep(0.02)
AsrResume(c, k) ==
    /\ asr[c][k].pc = "sleep"
    /\ LET x == Resume(c, asr[c][k]) IN
       /\ Speech(c, x.res)
       /\ asr' = [asr EXCEPT ![c][k] = AsrNext(c, @, x, @.phase)]
       /\ is_processing' = IF x.res.state = "raised"
                           THEN [is_processing EXCEPT ![c] = FALSE] ELSE is_processing
    /\ UNCHANGED <<AiFrame, resp_buffer, conversations>>

\* the steps of the tasks of connection c
Tasks(c) ==
    \/ AgenClose(c)
    \/ \E k \in Starts :
          \/ GreetSpeak(c, k)
          \/ GreetResume(c, k)
          \/ AsrBegin(c, k)
          \/ \E res \in Results : AsrGet(c, k, res)
          \/ AsrIdle(c, k)
          \/ \E ok \in BOOLEAN : AiCreate(c, k, ok)
          \/ \E tok \in Tokens : AiToken(c, k, tok)
          \/ AiEnd(c, k)
          \/ AiFail(c, k)
          \/ AsrResume(c, k)

Next ==
    \E c \in Conn :
        \/ Connect(c)
        \/ \E from \in Callers \cup {NoFrom} : HandleStart(c, from)
        \/ \E rms \in Levels : HandleMedia(c, rms)
        \/ \E kind \in {"mark", "invalid", "nopayload"} : HandleOther(c, kind)
        \/ HandleStop(c)
        \/ Close(c)
        \/ Tasks(c)

Spec == Init /\ [][Next]_vars

(***************************************************************************)
(* One call that is started once, hears speech, answers and is stopped or    *)
(* closed at any moment, with the scheduling spelled out: the event loop     *)
(* runs every task that is ready, timers expire (the 0.1 s of wait_for, the  *)
(* 20 ms of the sleep), and the generation service answers every call in the *)
(* end.  Every batch is recognized as the same final transcript.            *)
(***************************************************************************)
InitLive ==
    /\ trial = NoTrial
    /\ Start([c \in Conn |-> IF c = "c1" THEN Quota(MaxEvents, 1, MaxEvents, 1, 0) ELSE NoQuota])

\* the steps of the recognition task k of connection c
AsrStep(c, k) ==
    \/ AsrBegin(c, k)
    \/ AsrGet(c, k, [transcript |-> <<"h">>, is_final |-> TRUE])
    \/ AsrIdle(c, k)
    \/ AiCreate(c, k, TRUE)
    \/ AiCreate(c, k, FALSE)
    \/ AiEnd(c, k)
    \/ AiToken(c, k, <<"a">>)
    \/ AiFail(c, k)
    \/ AsrResume(c, k)

NextLive ==
    \E c \in Conn :
        \/ Connect(c)
        \/ \E from \in Callers : HandleStart(c, from)
        \/ \E rms \in Levels : HandleMedia(c, rms)
        \/ HandleStop(c)
        \/ Close(c)
        \/ AgenClose(c)
        \/ \E k \in Starts : GreetSpeak(c, k) \/ GreetResume(c, k) \/ AsrStep(c, k)

TasksRun == \A c \in Conn : \A k \in Starts : WF_vars(AsrStep(c, k))

SpecLive == InitLive /\ [][NextLive]_vars /\ TasksRun

\* the steps of the recognition task k of c that wait for nothing but the event loop
AsrOwnStep(c, k) ==
    \/ AsrBegin(c, k)
    \/ AsrGet(c, k, [transcript |-> <<"h">>, is_final |-> TRUE])
    \/ AsrIdle(c, k)
    \/ AsrResume(c, k)

\* the event loop runs every task that is ready and timers expire; the generation service
\* is promised nothing: chat.completions.create may never return and the stream may stay
\* open without a chunk (get_response sets no timeout, lines 53-66)
LoopRuns == \A c \in Conn : \A k \in Starts : WF_vars(AsrOwnStep(c, k))

\* the same call with a generation service that may stay silent
SpecSilent == InitLive /\ [][NextLive]_vars /\ LoopRuns

(***************************************************************************)
(* The same call with a recognition service that may fail.                  *)
(***************************************************************************)
\* start_processing without its finally: is_processing stays as it was
AsrFailNoFinally(c, k) ==
    /\ asr[c][k].pc = "wait"
    /\ audio_queue[c] # <<>>
    /\ audio_queue' = [audio_queue EXCEPT ![c] = Tail(@)]
    /\ asr' = [asr EXCEPT ![c][k] = [Ended(@) EXCEPT !.phase = "asr_failed"]]
    /\ emit' = <<>>
    /\ UNCHANGED <<hc, quota, maps, is_processing, is_playing, chunk_buffer, resp_buffer,
                   conversations, greet, agen, stopped, trial>>

\* audio_generator hands a chunk to streaming_recognize and recognition raises: the except
\* of streaming_recognize logs and the generator ends (riva_asr_client.py lines 98-99), the
\* loop of start_processing is over and its finally sets is_processing false (lines
\* 150-151); the task ends, its phase keeps how
AsrFail(c, k) ==
    /\ asr[c][k].pc = "wait"
    /\ audio_queue[c] # <<>>
    /\ audio_queue' = [audio_queue EXCEPT ![c] = Tail(@)]
    /\ asr' = [asr EXCEPT ![c][k] = [Ended(@) EXCEPT !.phase = "asr_failed"]]
    /\ is_processing' = [is_processing EXCEPT ![c] = FALSE]
    /\ emit' = <<>>
    /\ UNCHANGED <<hc, quota, maps, is_playing, chunk_buffer, resp_buffer, conversations,
                   greet, agen, stopped, trial>>

FailKinds == {"send", "synthesis"}

\* what SynthFail does without the finally of line 265: is_speaking[c] stays as it was
SynthFailNoFinally(c, t, kind) ==
    LET sp == Get(is_speaking, c, FALSE) IN
    [Untouched(c) EXCEPT !.sp = sp, !.touch = TRUE, !.open = IF kind = "send" THEN 1 ELSE 0,
                         !.pl = IF kind = "send" THEN is_playing[c] ELSE FALSE]

\* synthesize_and_send after asyncio.sleep(0.02) when something raises before the next
\* sleep: the except of line 262 logs, the finally of line 265 sets is_speaking[c] false and
\* the call returns; lines 249-260 are skipped, so the chunker keeps what it holds.
\*   "send": websocket.send raises (line 244 or 260), for the next frame of the chunk
\*     list, for the frame of the next chunk, or for the flushed remainder; the generator
\*     is left open at its yield unless it had ended
\*   "synthesis": the generator raises when asked for the next chunk (line 223), the
\*     finally of synthesize_and_queue sets is_playing false
\* state "none": nothing is there to fail
SynthFail(c, t, kind) ==
    LET sp == Get(is_speaking, c, FALSE)
        m == [sid |-> t.sid, late |-> t.hit, text |-> t.text, speaking |-> sp]
        n == NextChunk(sp, is_playing[c], chunk_buffer[c], t.left, m)
        aborted == [Untouched(c) EXCEPT !.touch = TRUE]
    IN
    CASE kind = "send" /\ t.pending > 0 -> [aborted EXCEPT !.open = 1]
      [] kind = "send" /\ t.pending = 0 /\ n.state = "sleep" ->
             [aborted EXCEPT !.bf = n.bf, !.open = 1]
      [] kind = "send" /\ t.pending = 0 /\ n.state # "sleep" /\ n.out # <<>> ->
             [n EXCEPT !.out = <<>>]
      [] kind = "synthesis" /\ t.pending = 0 /\ t.left # <<>> /\ is_playing[c] ->
             [aborted EXCEPT !.pl = FALSE]
      [] OTHER -> [aborted EXCEPT !.state = "none"]

\* a task resumes after the sleep, its fragment fails, and it goes on to the texts still to
\* be said
FailedResume(c, t, kind) == Say(c, t.todo, SynthFail(c, t, kind))

\* the greeting fails after a sleep; trial keeps the latest failure of an emission
GreetSpeechFail(c, k, kind) ==
    /\ greet[c][k].pc = "sleep"
    /\ SynthFail(c, greet[c][k], kind).state # "none"
    /\ LET x == FailedResume(c, greet[c][k], kind) IN
       /\ Speech(c, x.res)
       /\ greet' = [greet EXCEPT ![c][k] =
             IF x.res.state = "sleep" THEN InFlight(c, @, x) ELSE Left(@, "done")]
    /\ trial' = [conn |-> c, task |-> "greeting", kind |-> kind,
                 held |-> SynthFail(c, greet[c][k], kind).bf]
    /\ UNCHANGED <<hc, quota, connections, stream_sids, call_sids, caller_numbers,
                   audio_processors, output_managers, audio_chunkers, response_buffers,
                   last_transcript, audio_queue, is_processing, resp_buffer, conversations,
                   asr, stopped>>

\* a fragment of the response fails after a sleep; process_with_ai goes on
AsrSpeechFail(c, k, kind) ==
    /\ asr[c][k].pc = "sleep"
    /\ SynthFail(c, asr[c][k], kind).state # "none"
    /\ LET x == FailedResume(c, asr[c][k], kind) IN
       /\ Speech(c, x.res)
       /\ asr' = [asr EXCEPT ![c][k] = AsrNext(c, @, x, @.phase)]
       /\ is_processing' = IF x.res.state = "raised"
                           THEN [is_processing EXCEPT ![c] = FALSE] ELSE is_processing
    /\ trial' = [conn |-> c, task |-> "response", kind |-> kind,
                 held |-> SynthFail(c, asr[c][k], kind).bf]
    /\ UNCHANGED <<hc, quota, connections, stream_sids, call_sids, caller_numbers,
                   audio_processors, output_managers, audio_chunkers, response_buffers,
                   last_transcript, audio_queue, greet, stopped, resp_buffer, conversations>>

NextFaulty ==
    \/ NextLive
    \/ \E c \in Conn : \E k \in Starts :
          \/ AsrFail(c, k)
          \/ \E kind \in FailKinds : GreetSpeechFail(c, k, kind) \/ AsrSpeechFail(c, k, kind)

SpecFaulty == InitLive /\ [][NextFaulty]_vars

NextShared ==
    \E c \in Conn :
        \/ Connect(c)
        \/ \E from \in Callers : HandleStart(c, from)
        \/ HandleMedia(c, VoiceThreshold)
        \/ HandleStop(c)
        \/ Close(c)
        \/ Tasks(c)

SpecShared == InitShared /\ [][NextShared]_vars

\* one call that goes on: a start event and MaxHeard media events below the threshold, each
\* recognized as the same final transcript and answered with at most the token "a"
InitLong ==
    /\ trial = NoTrial
    /\ Start([c \in Conn |-> IF c = "c1" THEN Quota(MaxHeard + 1, 1, MaxHeard, 0, 0) ELSE NoQuota])

NextLong ==
    \E c \in Conn :
        \/ Connect(c)
        \/ \E from \in Callers : HandleStart(c, from)
        \/ HandleMedia(c, VoiceThreshold)
        \/ \E k \in Starts :
              \/ GreetSpeak(c, k)
              \/ GreetResume(c, k)
              \/ AsrBegin(c, k)
              \/ AsrGet(c, k, [transcript |-> <<"h">>, is_final |-> TRUE])
              \/ AiCreate(c, k, TRUE)
              \/ AiToken(c, k, <<"a">>)
              \/ AiEnd(c, k)
              \/ AiFail(c, k)
              \/ AsrResume(c, k)

SpecLong == InitLong /\ [][NextLong]_vars

(***************************************************************************)
(* A ResponseBuffer on its own: chunks are added and get_complete_sentences *)
(* is called after each, as process_with_ai does; at the end of the stream  *)
(* get_remaining is called.  fed: the chunks added; out: the sentences      *)
(* returned so far; raised: a call raised.                                  *)
(***************************************************************************)
BufferChunks == Tokens \cup {<<".">>, <<"b", "!">>}

InitBuffer ==
    /\ trial = [buffer |-> <<>>, fed |-> <<>>, out |-> <<>>, remaining |-> <<>>,
                raised |-> FALSE, done |-> FALSE]
    /\ Start([c \in Conn |-> NoQuota])

\* add_chunk(chunk), then get_complete_sentences()
BufferFeed(chunk) ==
    /\ ~trial.done /\ ~trial.raised
    /\ Len(trial.fed) < MaxChunks
    /\ LET g == get_complete_sentences(Append(trial.buffer, chunk)) IN
       trial' = [trial EXCEPT !.fed = Append(@, chunk),
                              !.buffer = g.buffer,
                              !.out = @ \o g.sentences,
                              !.raised = g.raised]
    /\ UNCHANGED agent

\* the stream ends: get_remaining()
BufferEnd ==
    /\ ~trial.done /\ ~trial.raised
    /\ trial' = [trial EXCEPT !.remaining = Join(trial.buffer), !.done = TRUE]
    /\ UNCHANGED agent

NextBuffer == (\E chunk \in BufferChunks : BufferFeed(chunk)) \/ BufferEnd

SpecBuffer == InitBuffer /\ [][NextBuffer]_vars

(***************************************************************************)
(* An AudioChunker on its own, with the bytes themselves: written is all    *)
(* that was written, frames the chunks add_audio returned, remaining what   *)
(* get_remaining returned.                                                  *)
(***************************************************************************)
Bytes == {0, 7}

RECURSIVE Cut(_, _)
\* the loop of add_audio (lines 130-133): chunks of size bytes are cut off the buffer
Cut(buffer, size) ==
    IF Len(buffer) >= size
    THEN LET r == Cut(SubSeq(buffer, size + 1, Len(buffer)), size) IN
         [chunks |-> <<SubSeq(buffer, 1, size)>> \o r.chunks, buffer |-> r.buffer]
    ELSE [chunks |-> <<>>, buffer |-> buffer]

\* add_audio that forgets what it did not return
add_audio_dropping(buffer, data, size) == [Cut(buffer \o data, size) EXCEPT !.buffer = <<>>]

\* AudioChunker.add_audio on bytes
add_audio_bytes(buffer, data, size) == Cut(buffer \o data, size)

\* AudioChunker.get_remaining on bytes: the buffer padded with zeros, or b''
get_remaining_bytes(buffer, size) ==
    IF buffer = <<>> THEN <<>>
    ELSE buffer \o [i \in 1..(size - Len(buffer)) |-> 0]

\* the byte strings of at most n bytes
RECURSIVE Writes(_)
Writes(n) ==
    IF n = 0 THEN {<<>>}
    ELSE Writes(n - 1) \cup {Append(w, b) : w \in {v \in Writes(n - 1) : Len(v) = n - 1},
                                            b \in Bytes}

InitChunker ==
    /\ trial = [buffer |-> <<>>, written |-> <<>>, writes |-> 0, frames |-> <<>>,
                remaining |-> <<>>, flushed |-> FALSE]
    /\ Start([c \in Conn |-> NoQuota])

ChunkerWrite(data) ==
    /\ ~trial.flushed
    /\ trial.writes < MaxWrites
    /\ LET r == add_audio_bytes(trial.buffer, data, SmallChunk) IN
       trial' = [trial EXCEPT !.buffer = r.buffer, !.written = @ \o data,
                              !.writes = @ + 1, !.frames = @ \o r.chunks]
    /\ UNCHANGED agent

ChunkerFlush ==
    /\ ~trial.flushed
    /\ trial' = [trial EXCEPT !.remaining = get_remaining_bytes(trial.buffer, SmallChunk),
                              !.buffer = <<>>, !.flushed = TRUE]
    /\ UNCHANGED agent

NextChunker == (\E data \in Writes(MaxWriteLen) : ChunkerWrite(data)) \/ ChunkerFlush

SpecChunker == InitChunker /\ [][NextChunker]_vars

(***************************************************************************)
(* An AudioOutputManager on its own.  Its synthesize_and_queue is asked for  *)
(* up to MaxGens generators, as VoiceAgent asks the manager of a connection  *)
(* for the greeting's and for a response's; each is advanced by its          *)
(* consumer.  Per generator: pc ("none", "yielded": suspended at the yield   *)
(* of line 104, "done"), left (the synthesizer's chunks not yet asked for),  *)
(* cancelled (interrupt() was called while it was suspended) and after (the  *)
(* chunks it yielded since).                                                *)
(***************************************************************************)
Gens == 1..MaxGens
OutputTexts == {Greeting, ApologyAI}

InitOutput ==
    /\ trial = [is_playing |-> FALSE,
                gen |-> [g \in Gens |-> [pc |-> "none", left |-> <<>>, cancelled |-> FALSE,
                                         after |-> 0]]]
    /\ Start([c \in Conn |-> NoQuota])

\* the loop of synthesize_and_queue (lines 97-107) from its head, for a generator whose
\* synthesizer still has the chunks left: it ends when there is none or is_playing is
\* false, and the finally sets is_playing false; else it yields the next chunk
OutputLoop(g, playing, left) ==
    IF left = <<>> \/ ~playing
    THEN trial' = [trial EXCEPT !.is_playing = FALSE, !.gen[g].pc = "done", !.gen[g].left = <<>>]
    ELSE trial' = [trial EXCEPT !.is_playing = playing,
                                !.gen[g].pc = "yielded", !.gen[g].left = Tail(left),
                                !.gen[g].after = IF trial.gen[g].cancelled THEN @ + 1 ELSE @]

\* the consumer asks a new generator for its first chunk: is_playing = True (line 95)
OutputBegin(g, text) ==
    /\ trial.gen[g].pc = "none"
    /\ OutputLoop(g, TRUE, synthesize(text))
    /\ UNCHANGED agent

\* the consumer asks a suspended generator for its next chunk
OutputNext(g) ==
    /\ trial.gen[g].pc = "yielded"
    /\ OutputLoop(g, trial.is_playing, trial.gen[g].left)
    /\ UNCHANGED agent

\* AudioOutputManager.interrupt (lines 109-116)
OutputInterrupt ==
    /\ \E g \in Gens : trial.gen[g].pc = "yielded" /\ ~trial.gen[g].cancelled
    /\ trial' = [trial EXCEPT !.is_playing = FALSE,
                              !.gen = [g \in Gens |->
                                  IF @[g].pc = "yielded" THEN [@[g] EXCEPT !.cancelled = TRUE]
                                  ELSE @[g]]]
    /\ UNCHANGED agent

NextOutput ==
    \/ \E g \in Gens : \E text \in OutputTexts : OutputBegin(g, text)
    \/ \E g \in Gens : OutputNext(g)
    \/ OutputInterrupt

SpecOutput == InitOutput /\ [][NextOutput]_vars

(***************************************************************************)
(* Two calls of one caller at the same time: each is started and hears one  *)
(* frame, recognized as a final transcript; the generation service answers  *)
(* and does not fail, and nothing is stopped or closed.                     *)
(***************************************************************************)
InitOverlap ==
    /\ trial = NoTrial
    /\ Start([c \in Conn |-> Quota(MaxShared, 1, MaxShared - 1, 0, 0)])

NextOverlap ==
    \E c \in Conn :
        \/ Connect(c)
        \/ \E from \in Callers : HandleStart(c, from)
        \/ HandleMedia(c, VoiceThreshold)
        \/ \E k \in Starts :
              \/ GreetSpeak(c, k)
              \/ GreetResume(c, k)
              \/ AsrBegin(c, k)
              \/ AsrGet(c, k, [transcript |-> <<"h">>, is_final |-> TRUE])
              \/ AiCreate(c, k, TRUE)
              \/ AiToken(c, k, <<"a">>)
              \/ AiEnd(c, k)
              \/ AsrResume(c, k)

SpecOverlap == InitOverlap /\ [][NextOverlap]_vars

(***************************************************************************)
(* RivaASRClient.streaming_recognize on its own, over an audio stream that   *)
(* yields chunks and then ends.  A chunk is its number in the stream and its *)
(* sample rate.  held: the resampled chunks in audio_buffer; fed: the number *)
(* of chunks received; batches: the batches combined at line 86, for each of *)
(* which one result was yielded; submitted: the number of chunks in them;    *)
(* over: the generator has returned.                                        *)
(***************************************************************************)
InitBatch ==
    /\ trial = [held |-> <<>>, fed |-> 0, batches |-> <<>>, submitted |-> 0, over |-> FALSE]
    /\ Start([c \in Conn |-> NoQuota])

\* resample_audio (lines 68-71): audioop.ratecv from 8000 to 16000 samples a second
resample_audio(chunk) == [chunk EXCEPT !.rate = AsrRate]

\* a batch that is one chunk short
batch_ready_early(buffer) == Len(buffer) >= BatchSize - 1

\* line 85: len(audio_buffer) >= 50
batch_ready(buffer) == Len(buffer) >= BatchSize

\* the stream yields a chunk (lines 80-96): it is resampled and buffered, and with BatchSize
\* chunks buffered they are combined, a result is yielded and the buffer is emptied
BatchFeed ==
    /\ ~trial.over
    /\ trial.fed < MaxFed
    /\ LET buffer == Append(trial.held, resample_audio([seq |-> trial.fed + 1, rate |-> LineRate])) IN
       trial' = IF batch_ready(buffer)
                THEN [trial EXCEPT !.fed = @ + 1, !.held = <<>>,
                                   !.batches = Append(@, buffer),
                                   !.submitted = @ + Len(buffer)]
                ELSE [trial EXCEPT !.fed = @ + 1, !.held = buffer]
    /\ UNCHANGED agent

\* the stream ends: the async for of line 80 is over and the function returns; nothing
\* follows the loop inside the try
BatchEnd ==
    /\ ~trial.over
    /\ trial' = [trial EXCEPT !.over = TRUE, !.held = <<>>]
    /\ UNCHANGED agent

NextBatch == BatchFeed \/ BatchEnd

SpecBatch == InitBatch /\ [][NextBatch]_vars

(***************************************************************************)
(* ConnectionPool (performance_optimizer.py lines 240-295) called from      *)
(* MaxThreads threads.  trial is the pool and the threads: known, the keys  *)
(* of pools; conns and in_use, the two fields of each pool; made, the       *)
(* connections the factories have made, a factory call making a new one;    *)
(* lock, the thread that holds _lock (0: free); thr, where each thread is   *)
(* in its call; leases, how many times a connection has been returned by    *)
(* get_connection since it was last released.                               *)
(***************************************************************************)
Threads == 1..MaxThreads
Services == {"asr", "tts"}
NoConn == 0 - 1       \* get_connection returns None
NewConn == 0          \* get_connection will call the factory

Range(seq) == {seq[i] : i \in 1..Len(seq)}

Idle == [pc |-> "idle", service |-> "-", conn |-> NoConn, pick |-> NoConn]

InitPool ==
    /\ trial = [known |-> {}, conns |-> [s \in Services |-> <<>>],
                in_use |-> [s \in Services |-> {}], made |-> 0, lock |-> 0,
                thr |-> [t \in Threads |-> Idle], leases |-> EmptyMap]
    /\ Start([c \in Conn |-> NoQuota])

\* a lock that never makes a thread wait
never_locked(lock) == TRUE

\* threading.Lock: with self._lock is entered when no thread holds the lock
lock_free(lock) == lock = 0

\* a thread calls get_connection(service, factory) and enters the with block (line 250)
PoolGet(t, s) ==
    /\ trial.thr[t].pc = "idle"
    /\ lock_free(trial.lock)
    /\ trial' = [trial EXCEPT !.lock = t,
                              !.thr[t] = [Idle EXCEPT !.pc = "scan", !.service = s]]
    /\ UNCHANGED agent

\* lines 251-271: the pool of the service is made when it is not there; the first
\* connection of the list that is not in use is picked, else a new one when the list is
\* shorter than max_connections, else none
PoolScan(t) ==
    /\ trial.thr[t].pc = "scan"
    /\ LET s == trial.thr[t].service
           free == {i \in 1..Len(trial.conns[s]) : trial.conns[s][i] \notin trial.in_use[s]}
           pick == IF free # {} THEN trial.conns[s][CHOOSE i \in free : \A j \in free : i <= j]
                   ELSE IF Len(trial.conns[s]) < MaxConnections THEN NewConn
                   ELSE NoConn
       IN trial' = [trial EXCEPT !.known = @ \cup {s},
                                 !.thr[t].pc = "commit", !.thr[t].pick = pick]
    /\ UNCHANGED agent

\* lines 261-272: the picked connection is marked in use and returned, or the factory is
\* called and its connection is appended, marked in use and returned, or None is
\* returned; the with block is left
PoolCommit(t) ==
    /\ trial.thr[t].pc = "commit"
    /\ LET s == trial.thr[t].service
           pick == trial.thr[t].pick
           conn == IF pick = NewConn THEN trial.made + 1 ELSE pick
       IN trial' = IF pick = NoConn
                   THEN [trial EXCEPT !.lock = 0, !.thr[t] = Idle]
                   ELSE [trial EXCEPT
                            !.lock = 0,
                            !.thr[t] = Idle,
                            !.made = IF pick = NewConn THEN @ + 1 ELSE @,
                            !.conns[s] = IF pick = NewConn THEN Append(@, conn) ELSE @,
                            !.in_use[s] = @ \cup {conn},
                            !.leases = Put(@, conn, Get(@, conn, 0) + 1)]
    /\ UNCHANGED agent

\* a thread calls release_connection(service, connection) and enters the with block (line
\* 279); the connection is any the factories have made
PoolRelease(t, s, conn) ==
    /\ trial.thr[t].pc = "idle"
    /\ lock_free(trial.lock)
    /\ conn \in 1..trial.made
    /\ trial' = [trial EXCEPT !.lock = t,
                              !.thr[t] = [Idle EXCEPT !.pc = "release", !.service = s,
                                                      !.conn = conn]]
    /\ UNCHANGED agent

\* lines 280-283: the connection is taken out of in_use when the service has a pool and
\* the connection is in use there; the with block is left
PoolFree(t) ==
    /\ trial.thr[t].pc = "release"
    /\ LET s == trial.thr[t].service
           conn == trial.thr[t].conn
       IN trial' = IF s \in trial.known /\ conn \in trial.in_use[s]
                   THEN [trial EXCEPT !.lock = 0, !.thr[t] = Idle,
                                      !.in_use[s] = @ \ {conn},
                                      !.leases = Put(@, conn, 0)]
                   ELSE [trial EXCEPT !.lock = 0, !.thr[t] = Idle]
    /\ UNCHANGED agent

NextPool ==
    \E t \in Threads :
        \/ \E s \in Services : PoolGet(t, s)
        \/ PoolScan(t)
        \/ PoolCommit(t)
        \/ \E s \in Services : \E conn \in 1..(2 * MaxConnections) : PoolRelease(t, s, conn)
        \/ PoolFree(t)

SpecPool == InitPool /\ [][NextPool]_vars

(***************************************************************************)
(* CallRegistry (monitoring.py lines 201-245) on its own.  trial is the     *)
(* registry, active_calls, completed_calls and call_stats, with the clock   *)
(* (one tick per call made) and the history of the calls made: regs, the    *)
(* registrations so far, each record carrying the number of the             *)
(* registration that made it; last, the latest of register_call and         *)
(* complete_call made for each id; counted, how many times each             *)
(* registration was added to completed_calls and to the counters.           *)
(***************************************************************************)
CallIds == {"CA1", "CA2"}
Statuses == {"completed", "failed"}
Events == {"transcript"}

InitRegistry ==
    /\ trial = [active_calls |-> EmptyMap, completed_calls |-> <<>>, call_stats |-> EmptyMap,
                clock |-> 0, regs |-> 0, last |-> [id \in CallIds |-> "none"],
                counted |-> EmptyMap]
    /\ Start([c \in Conn |-> NoQuota])

\* a deque without maxlen
append_unbounded(q, x, maxlen) == Append(q, x)

\* deque(maxlen=history_size).append: the oldest record is dropped from a full deque
deque_append(q, x, maxlen) ==
    IF maxlen = 0 THEN q
    ELSE IF Len(q) >= maxlen THEN Append(Tail(q), x)
    ELSE Append(q, x)

\* call_stats[key] += n (a defaultdict(int))
Add(stats, key, n) == Put(stats, key, Get(stats, key, 0) + n)

\* register_call (lines 209-219)
RegisterCall(id) ==
    /\ trial.clock < MaxCalls
    /\ trial' = [trial EXCEPT
                    !.active_calls = Put(@, id, [call_id |-> id, reg |-> trial.regs + 1,
                                                 start_time |-> trial.clock, duration |-> 0,
                                                 status |-> "active", events |-> 0]),
                    !.call_stats = Add(@, "total_calls", 1),
                    !.clock = @ + 1, !.regs = @ + 1, !.last[id] = "register"]
    /\ UNCHANGED agent

\* update_call (lines 221-233)
UpdateCall(id, event) ==
    /\ trial.clock < MaxCalls
    /\ trial' = IF id \in DOMAIN trial.active_calls
                THEN [trial EXCEPT
                         !.active_calls[id].events = @ + 1,
                         !.active_calls[id].duration =
                             trial.clock - trial.active_calls[id].start_time,
                         !.clock = @ + 1]
                ELSE [trial EXCEPT !.clock = @ + 1]
    /\ UNCHANGED agent

\* complete_call (lines 235-250)
CompleteCall(id, status) ==
    /\ trial.clock < MaxCalls
    /\ trial' = IF id \in DOMAIN trial.active_calls
                THEN LET call == [trial.active_calls[id] EXCEPT
                                     !.status = status,
                                     !.duration = trial.clock - trial.active_calls[id].start_time]
                     IN [trial EXCEPT
                            !.active_calls = Del(@, id),
                            !.completed_calls = deque_append(@, call, HistorySize),
                            !.call_stats = Add(Add(@, status \o "_calls", 1),
                                               "total_duration", call.duration),
                            !.clock = @ + 1, !.last[id] = "complete",
                            !.counted = Add(@, call.reg, 1)]
                ELSE [trial EXCEPT !.clock = @ + 1, !.last[id] = "complete"]
    /\ UNCHANGED agent

NextRegistry ==
    \E id \in CallIds :
        \/ RegisterCall(id)
        \/ \E event \in Events : UpdateCall(id, event)
        \/ \E status \in Statuses : CompleteCall(id, status)

SpecRegistry == InitRegistry /\ [][NextRegistry]_vars

(***************************************************************************)
(* Barge-in.                                                               *)
(***************************************************************************)
\* handle_media takes the branch of lines 145-147 for connection c in this step
Interrupts(c) ==
    /\ c \in audio_processors
    /\ Get(is_speaking, c, FALSE)
    /\ HandleMedia(c, VoiceThreshold + 1)

\* C1 (first half): a media event above the threshold handled while is_speaking[c] is true
\* leaves is_speaking[c] false in the same step.
C1_StopsSpeaking ==
    [][\A c \in Conn : Interrupts(c) => c \in DOMAIN is_speaking' /\ ~is_speaking'[c]]_vars

\* C1: no media frame is sent of a fragment that was in flight when a barge-in happened.
C1_NoLateFrame == \A i \in 1..Len(emit) : ~emit[i].late

\* C2: the step in which handle_media interrupts playback sends a clear message with the
\* connection's stream identifier.
C2_ClearSent ==
    [][\A c \in Conn : Interrupts(c) =>
          \E i \in 1..Len(emit') :
              /\ emit'[i].conn = c
              /\ emit'[i].event = "clear"
              /\ emit'[i].streamSid = Get(stream_sids, c, "-")]_vars

TasksDone(c) ==
    /\ \A k \in Starts : greet[c][k].pc \in {"none", "done", "crashed"}
    /\ \A k \in Starts : asr[c][k].pc \in {"none", "done"}
    /\ agen[c] = 0

\* no event of c has been handled since its stop event
JustStopped(c) == stopped[c].at > 0 /\ stopped[c].at = quota[c].seen

\* c is in none of the per-connection maps
NoEntry(c) ==
    /\ c \notin DOMAIN connections
    /\ c \notin DOMAIN stream_sids
    /\ c \notin DOMAIN call_sids
    /\ c \notin DOMAIN caller_numbers
    /\ c \notin audio_processors
    /\ c \notin output_managers
    /\ c \notin audio_chunkers
    /\ c \notin response_buffers
    /\ c \notin DOMAIN is_speaking
    /\ c \notin DOMAIN last_transcript

\* C4: in every reachable state and for every connection, cleanup_connection called a
\* second time leaves the state its first call left, and neither call raises.
C4_CleanupIdempotent ==
    \A c \in Conn :
        LET once == cleanup_connection(AgentState, c)
            twice == cleanup_connection(once, c)
        IN twice = once /\ ~once.raised /\ ~twice.raised

\* cleanup_connection has run twice for a connection: for its stop event and for the close
C4_StopThenClose == \E c \in Conn : stopped[c].at > 0 /\ hc[c] = "closed"

\* C5: when a stop event was handled while a response was generated or played, no event
\* followed it and the tasks of the connection have completed, no per-connection map holds
\* an entry for the connection.
C5_NoEntryLeft ==
    \A c \in Conn :
        /\ stopped[c].during \cap {"response", "generating"} # {}
        /\ JustStopped(c)
        /\ TasksDone(c)
        => NoEntry(c)

\* C6: no media message is sent for a connection whose stop event has been handled.
C6_SilentAfterStop == \A i \in 1..Len(emit) : stopped[emit[i].conn].at = 0

\* a stop event was handled while a fragment was being emitted, and the tasks have completed
C6_StoppedWhileSpeaking ==
    \E c \in Conn :
        /\ stopped[c].during \cap {"greeting", "response"} # {}
        /\ TasksDone(c)

\* exactly one session has been started on c
OneSession(c) ==
    /\ asr[c][1].pc # "none"
    /\ \A k \in Starts \ {1} : asr[c][k].pc = "none"

\* C7: once the only session there has been is destroyed, no caller has a history (a
\* transcript of a new session would need a second start event).
C7_HistoryStaysEmpty ==
    \A c \in Conn :
        /\ OneSession(c)
        /\ \A d \in Conn \ {c} : asr[d][1].pc = "none"
        /\ c \notin DOMAIN caller_numbers
        => conversations = EmptyMap

\* C8: cleanup_connection of a connection whose caller has another live connection leaves
\* the conversation histories unchanged.
C8_SharedHistoryKept ==
    [][\A c \in Conn :
          /\ HandleStop(c) \/ Close(c)
          /\ c \in DOMAIN caller_numbers
          /\ \E d \in Conn \ {c} :
                d \in DOMAIN caller_numbers /\ caller_numbers[d] = caller_numbers[c]
          => conversations' = conversations]_vars

\* C9: an event handled on a connection after its stop event changes nothing of the agent's
\* state, starts no task and sends nothing.
C9_IgnoredAfterStop ==
    [][\A c \in Conn :
          stopped[c].at > 0 /\ quota'[c].seen # quota[c].seen
          => /\ UNCHANGED <<maps, objects, conversations, greet, asr, agen>>
             /\ emit' = <<>>]_vars

\* C10: the chunks in a connection's recognition queue are in the order in which their
\* media events arrived.
C10_ArrivalOrder ==
    \A c \in Conn : \A i, j \in 1..Len(audio_queue[c]) :
        i < j => audio_queue[c][i].seq < audio_queue[c][j].seq

\* two chunks wait in the queue of a connection
C10_TwoQueued == \E c \in Conn : Len(audio_queue[c]) >= 2

(***************************************************************************)
(* The response pipeline.                                                  *)
(***************************************************************************)
\* C11: the turns a call of get_response passes to the service are at most ContextTurns,
\* they are the latest turns of the caller's history in order, and the last of them is the
\* user turn of the transcript just heard.
C11_ContextBounded ==
    \A c \in Conn : \A k \in Starts :
        asr[c][k].pc = "ai_call" =>
            LET h == conversations[asr[c][k].caller]
                r == asr[c][k].request
            IN /\ Len(r) <= ContextTurns
               /\ Len(r) = IF Len(h) < ContextTurns THEN Len(h) ELSE ContextTurns
               /\ \A i \in 1..Len(r) : r[i] = h[Len(h) - Len(r) + i]
               /\ r[Len(r)] = [role |-> "user", content |-> last_transcript[c]]

\* get_response is called for a caller whose history is longer than the context
C11_LongHistory ==
    \E c \in Conn : \E k \in Starts :
        /\ asr[c][k].pc = "ai_call"
        /\ Len(conversations[asr[c][k].caller]) > ContextTurns

\* C12: no call of get_complete_sentences raises, and at the end of the stream the sentences
\* returned followed by the remainder are the chunks added, joined.
C12_NoTextLost ==
    /\ ~trial.raised
    /\ trial.done => Join(trial.out) \o trial.remaining = Join(trial.fed)

\* C13: the frames add_audio returns have chunk_size bytes each and the buffer holds fewer;
\* the frames followed by the buffer are what was written; after get_remaining the frames
\* followed by what it returned are what was written followed by zeros, fewer than
\* chunk_size of them, and it returned nothing when the buffer was empty.
C13_ChunkerRoundTrip ==
    LET all == Join(trial.frames) \o trial.remaining IN
    /\ \A i \in 1..Len(trial.frames) : Len(trial.frames[i]) = SmallChunk
    /\ Len(trial.buffer) < SmallChunk
    /\ ~trial.flushed => Join(trial.frames) \o trial.buffer = trial.written
    /\ trial.flushed =>
          /\ Len(all) >= Len(trial.written)
          /\ SubSeq(all, 1, Len(trial.written)) = trial.written
          /\ \A i \in (Len(trial.written) + 1)..Len(all) : all[i] = 0
          /\ Len(all) - Len(trial.written) < SmallChunk
          /\ Len(trial.remaining) \in {0, SmallChunk}
          /\ Join(trial.frames) = trial.written => trial.remaining = <<>>

\* a chunker that was written to twice, returned frames and was flushed with bytes in its buffer
C13_Flushed ==
    /\ trial.flushed
    /\ trial.writes = MaxWrites
    /\ Len(trial.frames) > 0
    /\ Len(trial.written) % SmallChunk # 0

\* the connection is registered and its output objects exist
Live(c) ==
    /\ c \in DOMAIN connections
    /\ c \in DOMAIN stream_sids
    /\ c \in output_managers
    /\ c \in audio_chunkers

\* the positions of text at which a sentence ends: an end mark followed by whitespace
Breaks(text) ==
    {i \in 1..(Len(text) - 1) : text[i] \in SentenceEnd /\ text[i + 1] \in Whitespace}

\* text holds a complete sentence followed by more than whitespace
SentenceThenMore(text) ==
    \E i \in Breaks(text) : \E j \in (i + 1)..Len(text) : text[j] \notin Whitespace

\* text begins with the first sentence of full
SpeaksFirstSentence(text, full) ==
    \E i \in Breaks(full) :
        /\ \A j \in Breaks(full) : i <= j
        /\ Len(text) >= i
        /\ Len(text) < Len(full)
        /\ SubSeq(text, 1, i) = SubSeq(full, 1, i)

\* C14: get_response is called with the final transcript and the session's caller, and
\* the step in which the stream completes a sentence with more text behind it sends a frame
\* of that sentence while the stream is still being read.
C14_SentenceSpokenEarly ==
    [][\A c \in Conn : \A k \in Starts :
          /\ asr[c][k].pc = "wait" /\ asr'[c][k].pc = "ai_call"
             => /\ asr'[c][k].caller = caller_numbers[c]
                /\ asr'[c][k].request[Len(asr'[c][k].request)]
                      = [role |-> "user", content |-> last_transcript'[c]]
          /\ (/\ asr[c][k].pc = "ai_stream"
              /\ asr'[c][k].ntok = asr[c][k].ntok + 1
              /\ ~SentenceThenMore(asr[c][k].full)
              /\ SentenceThenMore(asr'[c][k].full)
              /\ Live(c))
             => /\ asr'[c][k].phase = "stream"
                /\ \E i \in 1..Len(emit') :
                      /\ emit'[i].conn = c
                      /\ SpeaksFirstSentence(emit'[i].text, asr'[c][k].full)]_vars

\* C15: when the generation service fails, before or in the middle of the stream, for a
\* connection that is registered, process_with_ai goes on to synthesize one fragment, which
\* is an apology and nothing else, and nothing more after it.
C15_OneApology ==
    [][\A c \in Conn : \A k \in Starts :
          (AiFail(c, k) \/ AiCreate(c, k, FALSE)) /\ Live(c)
          => /\ asr'[c][k].pc = "sleep"
             /\ asr'[c][k].text \in {ApologyGen, ApologyAI}
             /\ asr'[c][k].todo = <<>>]_vars

(***************************************************************************)
(* Audio intake.                                                           *)
(***************************************************************************)
\* C16: whatever the recognition task is doing, a media event the transport delivers on an
\* open connection can be handled to its end.
C16_IntakeNeverWaits ==
    \A c \in Conn :
        hc[c] = "open" /\ quota[c].events > 0 /\ quota[c].media > 0
        => ENABLED HandleMedia(c, VoiceThreshold)

\* the transport has a media event to deliver on an open connection whose only recognition
\* task is inside a response pipeline
C16_ConsumerBusy ==
    \E c \in Conn :
        /\ hc[c] = "open" /\ c \in audio_processors
        /\ quota[c].events > 0 /\ quota[c].media > 0
        /\ asr[c][1].pc \in {"ai_call", "ai_stream", "sleep"}
        /\ \A k \in Starts \ {1} : asr[c][k].pc = "none"

\* C17: a media event with a payload, handled while the connection's processor exists, adds
\* one chunk of twice the payload's length at the end of the recognition queue, interruption
\* or not, and leaves is_processing as it was.
C17_AudioForwarded ==
    [][\A c \in Conn :
          quota'[c].media < quota[c].media /\ c \in audio_processors
          => /\ Len(audio_queue'[c]) = Len(audio_queue[c]) + 1
             /\ SubSeq(audio_queue'[c], 1, Len(audio_queue[c])) = audio_queue[c]
             /\ audio_queue'[c][Len(audio_queue'[c])].size = 2 * FrameBytes
             /\ is_processing' = is_processing]_vars

\* a media event has interrupted a fragment, its audio is queued and recognition goes on
C17_QueuedOnBargeIn ==
    \E c \in Conn : \E k \in Starts :
        /\ greet[c][k].hit \/ asr[c][k].hit
        /\ audio_queue[c] # <<>>
        /\ audio_queue[c][Len(audio_queue[c])].seq = quota[c].seen
        /\ is_processing[c]

\* the task of the latest start event of c is task k
Latest(c, k) == \A j \in Starts : j > k => greet[c][j].pc = "none"

\* C18: a start event registers the connection with the event's stream identifier, call
\* identifier and caller address and creates a recognition task and a greeting task; when
\* the greeting task of the latest start wakes with no stop or close since that start, it
\* sends greeting frames tagged with that stream identifier.
C18_StartGreets ==
    [][\A c \in Conn :
          /\ quota'[c].start < quota[c].start
             => /\ c \in DOMAIN connections' /\ Get(stream_sids', c, "-") = Sid(c)
                /\ Get(call_sids', c, "-") = Cid(c) /\ c \in DOMAIN caller_numbers'
                /\ \E k \in Starts : /\ asr[c][k].pc = "none" /\ asr'[c][k].pc = "new"
                                     /\ greet[c][k].pc = "none" /\ greet'[c][k].pc = "delay"
          /\ \A k \in Starts :
                /\ greet[c][k].pc = "delay" /\ greet'[c][k].pc # "delay"
                /\ Latest(c, k) /\ hc[c] = "open" /\ c \in DOMAIN connections
                => /\ emit' # <<>>
                   /\ \A i \in 1..Len(emit') :
                         /\ emit'[i].conn = c /\ emit'[i].text = Greeting
                         /\ emit'[i].streamSid = Get(stream_sids, c, "-")]_vars

\* C19: when the transport of a connection closes, stopped before or not, the agent state
\* after the close is the state cleanup_connection gives, which is the state a stop event
\* handled in the same state would have given; the tasks are left as they were.
C19_CloseCleansLikeStop ==
    [][\A c \in Conn :
          hc[c] = "open" /\ hc'[c] = "closed"
          => /\ AgentState' = cleanup_connection(AgentState, c)
             /\ UNCHANGED <<audio_queue, is_playing, chunk_buffer, resp_buffer, greet, asr,
                            agen>>]_vars

\* a session that was started and never stopped has been closed by the transport
C19_ClosedWithoutStop ==
    \E c \in Conn :
        /\ hc[c] = "closed" /\ stopped[c].at = 0
        /\ asr[c][1].pc # "none"
        /\ c \notin DOMAIN connections /\ c \notin audio_processors

\* C20: whatever the order of the events, no task of a call ends with an exception that
\* nothing catches: no greeting task gets to the position "crashed" (the position of a task
\* whose coroutine raised), the one place of the model where an exception leaves a task.
C20_NoTaskCrashes ==
    \A c \in Conn : \A k \in Starts : greet[c][k].pc # "crashed"

(***************************************************************************)
(* Cancellation of synthesis.                                              *)
(***************************************************************************)
\* C21: a generator of synthesize_and_queue suspended when interrupt() is called yields at
\* most one more chunk, and once it has ended after that is_playing is false unless another
\* generator is running.
C21_StopsWithinOneFrame ==
    \A g \in Gens :
        trial.gen[g].cancelled
        => /\ trial.gen[g].after <= 1
           /\ (\A h \in Gens : trial.gen[h].pc # "yielded") => ~trial.is_playing

(***************************************************************************)
(* The conversation history.                                               *)
(***************************************************************************)
\* C22: in every caller's history, every user turn that is not the last turn is directly
\* followed by an assistant turn: the turns of two overlapping response generations of one
\* caller do not interleave.
C22_TurnsPaired ==
    \A caller \in DOMAIN conversations :
        \A i \in 1..(Len(conversations[caller]) - 1) :
            conversations[caller][i].role = "user"
            => conversations[caller][i + 1].role = "assistant"

(***************************************************************************)
(* Termination.                                                            *)
(***************************************************************************)
\* cleanup_connection has run for c: for a stop event or for the close of the transport
Cleaned(c) == stopped[c].at > 0 \/ hc[c] = "closed"

\* no recognition task of c, and with it no response pipeline of c, is still running
AsrOver(c) == \A k \in Starts : asr[c][k].pc \in {"none", "done"}

\* C23: once cleanup_connection has run for a connection, its recognition tasks and the
\* response pipelines in them come to an end, provided the event loop runs them and the
\* generation service answers.
C23_TasksEnd == \A c \in Conn : Cleaned(c) ~> AsrOver(c)

\* a recognition task that was generating or playing a response at the stop has ended
C23_EndedAfterStop ==
    \E c \in Conn :
        /\ stopped[c].during \cap {"response", "generating"} # {}
        /\ asr[c][1].pc = "done"
        /\ AsrOver(c)

(***************************************************************************)
(* The speaking state.                                                     *)
(***************************************************************************)
\* a synthesize_and_send of c is suspended between two frames
Emitting(c) == \E k \in Starts : greet[c][k].pc = "sleep" \/ asr[c][k].pc = "sleep"

\* C24: every media frame is sent while is_speaking is true for its connection, and
\* is_speaking is false for a connection of which no synthesize_and_send is in progress.
C24_SpeakingTracksEmission ==
    /\ \A i \in 1..Len(emit) : emit[i].speaking
    /\ \A c \in Conn : ~Emitting(c) => ~Get(is_speaking, c, FALSE)

\* the last frame of an utterance has just been sent and its synthesize_and_send has returned
C24_SpokenAndSilent ==
    \E c \in Conn :
        /\ emit # <<>> /\ emit[1].conn = c
        /\ ~Emitting(c)
        /\ c \in DOMAIN is_speaking /\ ~is_speaking[c]

\* the emissions in progress on c: the tasks suspended inside synthesize_and_send
Emissions(c) ==
    {<<"greeting", k>> : k \in {j \in Starts : greet[c][j].pc = "sleep"}}
    \cup {<<"response", k>> : k \in {j \in Starts : asr[c][j].pc = "sleep"}}

\* C25: at most one synthesis emission, the greeting or a fragment of a response, is in
\* progress on a connection at any time.
C25_OneEmission == \A c \in Conn : Cardinality(Emissions(c)) <= 1

(***************************************************************************)
(* One session per connection.                                             *)
(***************************************************************************)
\* C26: a connection has at most one session record (connections is a map, so the record
\* is one or none), at most one recognition task that has not ended and at most one
\* greeting waiting to be spoken, whatever start events it has received.
C26_OneSession ==
    \A c \in Conn :
        /\ Cardinality({k \in Starts : asr[c][k].pc \notin {"none", "done"}}) <= 1
        /\ Cardinality({k \in Starts : greet[c][k].pc = "delay"}) <= 1

(***************************************************************************)
(* The order of the fragments of a response.                               *)
(***************************************************************************)
RECURSIVE Pieces(_, _)
\* text cut behind the whitespace that follows each sentence end: the complete sentences in
\* the order of the text, then the remainder (acc: the piece being read)
Pieces(text, acc) ==
    IF text = <<>> THEN <<acc>>
    ELSE IF Head(text) \in SentenceEnd /\ Len(text) >= 2 /\ text[2] \in Whitespace
         THEN <<acc \o <<Head(text), text[2]>> >> \o Pieces(Tail(Tail(text)), <<>>)
    ELSE Pieces(Tail(text), Append(acc, Head(text)))

\* text ends with the apology get_response yields when the service fails
ServiceApology(text) ==
    /\ Len(text) >= Len(ApologyGen)
    /\ SubSeq(text, Len(text) - Len(ApologyGen) + 1, Len(text)) = ApologyGen

\* C27: while a fragment of a response whose generated text holds a complete sentence is
\* being sent, the fragment is one of the pieces of that text, the fragments still to be
\* said are the pieces that follow it, in the order of the text, and the remainder is said
\* in the last phase only.
C27_SentencesInOrder ==
    \A c \in Conn : \A k \in Starts :
        LET t == asr[c][k]
            parts == Pieces(t.full, <<>>)
        IN  t.pc = "sleep" /\ Breaks(t.full) # {} /\ ~ServiceApology(t.text)
            => \E i \in 1..Len(parts) :
                  /\ t.text = parts[i]
                  /\ Len(t.todo) <= Len(parts) - i
                  /\ t.todo = SubSeq(parts, i + 1, i + Len(t.todo))
                  /\ (i = Len(parts)) => t.phase = "last"

(***************************************************************************)
(* The recognition queue.                                                  *)
(***************************************************************************)
\* C28: the recognition queue of a connection is bounded whatever the traffic: its length
\* stays below the number of media events the transport delivers (MaxHeard, which may be
\* chosen as large as one likes), however slow the recognition task is.
C28_QueueBounded == \A c \in Conn : Len(audio_queue[c]) < MaxHeard

\* C29: when the audio stream has ended, every chunk streaming_recognize received has been
\* submitted for recognition, the chunks of a last batch shorter than BatchSize included.
C29_PartialBatchFlushed == trial.over => trial.submitted = trial.fed

\* the recognition task k of c waits for the generation service
Generating(c, k) == asr[c][k].pc \in {"ai_call", "ai_stream"}

\* C30: a response pipeline that waits for the generation service stops waiting in the end,
\* whether the service answers or not.
C30_GenerationTimesOut ==
    \A c \in Conn : \A k \in Starts : Generating(c, k) ~> ~Generating(c, k)

\* C31: streaming_recognize has yielded one result for every BatchSize chunks received and
\* none besides; the k-th batch holds the chunks (k-1) * BatchSize + 1 .. k * BatchSize of
\* the stream in arrival order, each resampled.
C31_OneEventPerBatch ==
    /\ Len(trial.batches) = trial.fed \div BatchSize
    /\ \A b \in 1..Len(trial.batches) :
          trial.batches[b] = [i \in 1..BatchSize |->
                                 [seq |-> (b - 1) * BatchSize + i, rate |-> AsrRate]]

\* two batches have been recognized and a third is being filled
C31_ThirdBatchBegun == Len(trial.batches) = 2 /\ trial.held # <<>> /\ ~trial.over

(***************************************************************************)
(* Failures of the adapters.                                               *)
(***************************************************************************)
\* the recognition task k of c ended because recognition failed
AsrFailed(c, k) == asr[c][k].phase = "asr_failed"

\* C32: when recognition fails, the recognition task ends with is_processing false, without
\* a message sent and with every map of the agent as it was, so the session stays
\* registered; the task does nothing afterwards; a later media event still puts its audio
\* in the queue and a later stop event still cleans the connection up.
C32_RecognitionFailureContained ==
    [][\A c \in Conn : \A k \in Starts :
          /\ AsrFail(c, k)
             => /\ asr'[c][k].pc = "done" /\ ~is_processing'[c]
                /\ UNCHANGED maps /\ emit' = <<>>
          /\ AsrFailed(c, k)
             => /\ asr'[c][k] = asr[c][k]
                /\ quota'[c].media < quota[c].media /\ c \in audio_processors
                   => Len(audio_queue'[c]) = Len(audio_queue[c]) + 1
                /\ quota'[c].stop < quota[c].stop
                   => AgentState' = cleanup_connection(AgentState, c)]_vars

\* recognition has failed in a session that is still registered and whose queue holds audio
\* that nothing will take
C32_FailedAndRegistered ==
    \E c \in Conn :
        /\ AsrFailed(c, 1) /\ ~is_processing[c]
        /\ c \in DOMAIN connections /\ c \in audio_processors
        /\ audio_queue[c] # <<>>

\* the step in which the fragment of task t of c fails: the failed call returns with
\* is_speaking false and, when no later fragment is begun in the step, the flag is false
\* after it; no call raises; the session's entries are as they were; the chunker holds
\* nothing of the failed fragment; what the step sends belongs to the later fragments
FragmentAborted(c, t, kind) ==
    LET f == SynthFail(c, t, kind)
        x == FailedResume(c, t, kind)
    IN /\ f.state = "returned" /\ ~f.sp /\ f.out = <<>>
       /\ x.res.state # "raised"
       /\ x.res.state # "sleep" => ~Get(is_speaking', c, FALSE)
       /\ UNCHANGED <<connections, stream_sids, call_sids, caller_numbers, audio_processors,
                      output_managers, audio_chunkers, response_buffers, last_transcript>>
       /\ f.bf = 0
       /\ Len(emit') <= Len(t.todo)
       /\ \A i \in 1..Len(emit') : \E j \in 1..Len(t.todo) : emit'[i].text = t.todo[j]

\* C33: when synthesis or sending fails in the middle of a fragment, synthesize_and_send
\* returns without raising with is_speaking false, the session stays registered, the
\* chunker holds no audio of the failed fragment, the task goes on with the later fragments
\* and, after the last one, with the later transcripts while recognition runs.
C33_FailureAbortsOneFragment ==
    [][\A c \in Conn : \A k \in Starts : \A kind \in FailKinds :
          /\ GreetSpeechFail(c, k, kind)
             => FragmentAborted(c, greet[c][k], kind) /\ greet'[c][k].pc \in {"sleep", "done"}
          /\ AsrSpeechFail(c, k, kind)
             => /\ FragmentAborted(c, asr[c][k], kind)
                /\ asr'[c][k].pc \in {"sleep", "ai_stream", "wait", "done"}
                /\ asr'[c][k].pc = "done" => ~is_processing[c]
                /\ asr'[c][k].pc = "wait" => is_processing[c]]_vars

\* a fragment of the response failed at a send in a session that is still registered, and
\* the task waits for the next transcript
C33_FailedAndListening ==
    /\ trial # NoTrial
    /\ trial.task = "response" /\ trial.kind = "send"
    /\ trial.conn \in DOMAIN connections
    /\ asr[trial.conn][1].pc = "wait"
    /\ ~Get(is_speaking, trial.conn, FALSE)

(***************************************************************************)
(* What starts a generation.                                               *)
(***************************************************************************)
\* the recognition task k of c begins a generation in this step
GenerationBegins(c, k) == asr[c][k].pc # "ai_call" /\ asr'[c][k].pc = "ai_call"

\* C34: a generation begins only in the step that handles a transcript which is final and
\* not blank, for a connection that is registered (its start event handled, no cleanup
\* since), and the response buffer is empty when it begins; a transcript that is partial
\* or blank changes no map of the agent, no flag, no buffer and no history, and sends
\* nothing.
C34_FinalTranscriptStarts ==
    [][\A c \in Conn : \A k \in Starts :
          /\ GenerationBegins(c, k)
             => /\ \E res \in Results :
                      AsrGet(c, k, res) /\ res.is_final /\ ~IsBlank(res.transcript)
                /\ c \in DOMAIN connections /\ c \in DOMAIN stream_sids
                /\ resp_buffer'[c] = <<>>
          /\ \A res \in Results :
                AsrGet(c, k, res) /\ (~res.is_final \/ IsBlank(res.transcript))
                => /\ UNCHANGED <<maps, is_processing, is_playing, chunk_buffer, resp_buffer,
                                  conversations>>
                   /\ emit' = <<>>]_vars

\* a second generation of the call has begun, with the first one's turns in the history
C34_SecondGeneration ==
    \E c \in Conn :
        /\ asr[c][1].pc = "ai_call"
        /\ c \in DOMAIN connections
        /\ Len(Get(conversations, asr[c][1].caller, <<>>)) >= 3

(***************************************************************************)
(* The caller identity of a start event without caller address.            *)
(***************************************************************************)
\* C35: the caller identity of a registered session is the caller address of its start
\* event or, when the event carried none, the value "unknown"; the histories are kept
\* under these identities.
C35_AbsentCallerIsUnknown ==
    /\ \A c \in DOMAIN caller_numbers : caller_numbers[c] \in Callers \cup {"unknown"}
    /\ \A c \in DOMAIN connections : connections[c].caller_number \in Callers \cup {"unknown"}
    /\ DOMAIN conversations \subseteq Callers \cup {"unknown"}

(***************************************************************************)
(* Messages that are not handled.                                          *)
(***************************************************************************)
\* C36: a message that is not JSON is dropped: the handler of the connection stays in its
\* message loop, no map, object, history or task of the agent changes and nothing is
\* sent; the connection's count of handled messages alone moves on.
C36_InvalidJsonDropped ==
    [][\A c \in Conn :
          HandleOther(c, "invalid")
          => /\ UNCHANGED <<hc, maps, objects, conversations, greet, asr, agen, stopped>>
             /\ emit' = <<>>
             /\ \A d \in Conn \ {c} : quota'[d] = quota[d]]_vars

\* the third message of a connection is a media event whose audio was queued, after a
\* message that was dropped
C36_MediaAfterDropped ==
    \E c \in Conn :
        /\ quota[c].other = MaxEvents - 1 /\ quota[c].seen = 3
        /\ c \in DOMAIN connections
        /\ audio_queue[c] # <<>> /\ audio_queue[c][Len(audio_queue[c])].seq = 3

(***************************************************************************)
(* Media events that do not interrupt.                                     *)
(***************************************************************************)
\* the media event left speech alone: the flags are what they were, no task was hit and
\* nothing was sent; its audio went to the end of the connection's queue
NotInterrupted(c) ==
    /\ Get(is_speaking', c, FALSE) = Get(is_speaking, c, FALSE)
    /\ \A d \in DOMAIN is_speaking' \ {c} : d \in DOMAIN is_speaking /\ is_speaking'[d] = is_speaking[d]
    /\ is_playing' = is_playing
    /\ greet' = greet /\ asr' = asr
    /\ emit' = <<>>
    /\ c \in audio_processors
       => /\ Len(audio_queue'[c]) = Len(audio_queue[c]) + 1
          /\ SubSeq(audio_queue'[c], 1, Len(audio_queue[c])) = audio_queue[c]
          /\ audio_queue'[c][Len(audio_queue'[c])].size = 2 * FrameBytes

\* C37: a media event handled while the session is not speaking, or whose level is not
\* above 500, interrupts nothing: is_speaking and is_playing keep their values, nothing is
\* sent and no fragment is cut; the audio is put at the end of the recognition queue.
C37_QuietMediaOnlyQueued ==
    [][\A c \in Conn :
          /\ HandleMedia(c, 500) => NotInterrupted(c)
          /\ \A rms \in Levels :
                HandleMedia(c, rms) /\ ~Get(is_speaking, c, FALSE) => NotInterrupted(c)]_vars

\* the session is speaking with a fragment in flight, and audio heard meanwhile is queued
C37_HeardWhileSpeaking ==
    \E c \in Conn :
        /\ Get(is_speaking, c, FALSE) /\ is_playing[c]
        /\ \E k \in Starts : greet[c][k].pc = "sleep" /\ ~greet[c][k].hit
        /\ audio_queue[c] # <<>>

(***************************************************************************)
(* Isolation of the sessions.                                              *)
(***************************************************************************)
\* the step handles an event of connection a: a message, the connect or the close
EventOf(a) == quota'[a] # quota[a] \/ hc'[a] # hc[a]

\* every entry the agent keeps for connection b, with None for an entry that is absent
EntriesOf(S, b) ==
    [registration |-> Get(S.connections, b, "None"),
     stream_sid |-> Get(S.stream_sids, b, "None"),
     call_sid |-> Get(S.call_sids, b, "None"),
     caller_number |-> Get(S.caller_numbers, b, "None"),
     processor |-> b \in S.audio_processors,
     output_manager |-> b \in S.output_managers,
     chunker |-> b \in S.audio_chunkers,
     response_buffer |-> b \in S.response_buffers,
     is_speaking |-> Get(S.is_speaking, b, "None"),
     last_transcript |-> Get(S.last_transcript, b, "None"),
     is_processing |-> S.is_processing[b]]

\* the transport of b is open and has a message of the kind to deliver
Deliverable(b, kind) == hc[b] = "open" /\ quota[b].events > 0 /\ quota[b][kind] > 0

\* C38: an event of a connection a, its cleanup included, leaves every entry of another
\* connection b as it was: registration, identifiers, processor, output manager, chunker
\* and its buffer, response buffer, speaking flag, last transcript, recognition queue, and
\* the tasks of b; and whatever a is doing, a message delivered to b is handled at once.
C38_SessionsIsolated ==
    /\ [](\A b \in Conn :
             /\ Deliverable(b, "media") => ENABLED HandleMedia(b, VoiceThreshold)
             /\ Deliverable(b, "stop") => ENABLED HandleStop(b)
             /\ Deliverable(b, "start") /\ (\E k \in Starts : asr[b][k].pc = "none")
                => \A from \in Callers : ENABLED HandleStart(b, from))
    /\ [][\A a \in Conn : \A b \in Conn \ {a} :
             EventOf(a)
             => /\ EntriesOf(AgentState', b) = EntriesOf(AgentState, b)
                /\ audio_queue'[b] = audio_queue[b]
                /\ chunk_buffer'[b] = chunk_buffer[b]
                /\ resp_buffer'[b] = resp_buffer[b]
                /\ is_playing'[b] = is_playing[b]
                /\ greet'[b] = greet[b] /\ asr'[b] = asr[b]
                /\ quota'[b] = quota[b] /\ hc'[b] = hc[b]]_vars

\* c2 was stopped and cleaned up while c1 is registered, has spoken and holds audio
C38_StoppedBesideLive ==
    /\ stopped["c2"].at > 0 /\ "c2" \notin DOMAIN connections
    /\ "c1" \in DOMAIN connections /\ "c1" \in DOMAIN is_speaking
    /\ audio_queue["c1"] # <<>>
    /\ stopped["c2"].at = quota["c2"].seen /\ quota["c1"].seen = MaxShared

(***************************************************************************)
(* ConnectionPool.                                                         *)
(***************************************************************************)
\* C39: whatever the threads do, for every service in_use is a subset of connections, there
\* are at most max_connections connections, a connection is returned by get_connection at
\* most once between two releases (and is in use exactly while it is leased), and
\* get_connection is about to return None only when max_connections connections exist and
\* all are in use.
C39_LeaseSafety ==
    \A s \in Services :
        /\ trial.in_use[s] \subseteq Range(trial.conns[s])
        /\ Len(trial.conns[s]) <= MaxConnections
        /\ \A x \in Range(trial.conns[s]) :
              /\ Get(trial.leases, x, 0) <= 1
              /\ Get(trial.leases, x, 0) = 1 <=> x \in trial.in_use[s]
        /\ \A t \in Threads :
              trial.thr[t].pc = "commit" /\ trial.thr[t].service = s /\ trial.thr[t].pick = NoConn
              => Len(trial.conns[s]) = MaxConnections /\ trial.in_use[s] = Range(trial.conns[s])

\* a thread is about to be refused a connection of a full pool, while the pool of the
\* other service holds a connection that was released
C39_RefusedByFullPool ==
    \E t \in Threads : \E s \in Services :
        /\ trial.thr[t].pc = "commit" /\ trial.thr[t].service = s /\ trial.thr[t].pick = NoConn
        /\ Cardinality(trial.in_use[s]) = MaxConnections
        /\ \E r \in Services \ {s} :
              \E x \in Range(trial.conns[r]) : x \notin trial.in_use[r]

(***************************************************************************)
(* CallRegistry.                                                           *)
(***************************************************************************)
\* the registry proper
Registry == <<trial.active_calls, trial.completed_calls, trial.call_stats>>

\* C40: a call id is active exactly when the latest of its register_call and complete_call
\* is a register_call; no registration is counted more than once, the status counters
\* together count the registrations that were completed, and completed_calls holds every
\* record once and at most history_size of them; update_call and complete_call for an id
\* that is not active leave active_calls, completed_calls and call_stats as they were.
C40_RegistryAccounting ==
    /\ [](/\ \A id \in CallIds : id \in DOMAIN trial.active_calls <=> trial.last[id] = "register"
          /\ \A n \in DOMAIN trial.counted : trial.counted[n] = 1
          /\ Get(trial.call_stats, "completed_calls", 0) + Get(trial.call_stats, "failed_calls", 0)
                = Cardinality(DOMAIN trial.counted)
          /\ Get(trial.call_stats, "total_calls", 0) = trial.regs
          /\ Len(trial.completed_calls) <= HistorySize
          /\ \A i, j \in 1..Len(trial.completed_calls) :
                trial.completed_calls[i].reg = trial.completed_calls[j].reg => i = j
          /\ \A i \in 1..Len(trial.completed_calls) :
                trial.completed_calls[i].reg \in DOMAIN trial.counted)
    /\ [][\A id \in CallIds :
             /\ id \notin DOMAIN trial.active_calls
             /\ \/ \E status \in Statuses : CompleteCall(id, status)
                \/ \E event \in Events : UpdateCall(id, event)
             => Registry' = Registry]_vars

\* more calls were completed than the history holds, one id was registered twice, and a
\* call is active
C40_HistoryOverflowed ==
    /\ Cardinality(DOMAIN trial.counted) > HistorySize
    /\ Len(trial.completed_calls) = HistorySize
    /\ trial.active_calls # EmptyMap
    /\ trial.regs > Cardinality(DOMAIN trial.counted)
====
